---- MODULE Spec2Model ----
(***************************************************************************)
(* Model of the terrain node of the tire/terrain co-simulation             *)
(* (projects/cosimulation/test_HMMWV_cosimulation/TerrainNode.cpp).        *)
(*                                                                         *)
(* The terrain node is one sequential process.  Its public operations      *)
(* (Construct, Settle, Initialize, Synchronize, Advance, WriteCheckpoint,  *)
(* the Set... configuration calls) are invoked by a driver when the node   *)
(* is idle.  Initialize and Synchronize contain blocking point-to-point    *)
(* receives and sends; they are split at exactly those calls, the program  *)
(* counter pc recording where the node is suspended.  The tire nodes are   *)
(* peers that put messages on per-tire FIFO channels.                      *)
(*                                                                         *)
(* Lengths are integers in units of 1e-4 m, so that 1.01 * radius, the     *)
(* halving of the platform height and the division by 3 of centroids and   *)
(* forces are exact on the sampled values.                                 *)
(***************************************************************************)
EXTENDS Integers, Sequences, FiniteSets, TLC

\* ------------------------------------------------------------------ bounds
NumTires == 2        \* m_num_tires, a constructor argument
MaxVert == 3         \* largest vertex count a tire declares
MaxTri == 2          \* largest triangle count a tire declares
MaxStep == 1         \* largest step number passed to Synchronize
MaxPerLayer == 1     \* most particles the sampler puts in one layer
MaxLayers == 1       \* largest layer count SetGranularMaterial is given
MaxContacts == 2     \* most proxies carrying a contact force at once
MaxTime == 3         \* cap on the simulation time reached
MaxAdvance == 3      \* largest macro step passed to Advance
StepSize == 2        \* m_step_size, the micro-step of the node
MaxInit == 2         \* cap on the number of Initialize calls
MaxCalls == 4        \* cap on the number of operations the driver calls
NumSamples == 1      \* number of sampled outcomes of a dynamics run
MaxChan == 4         \* most messages a tire leaves unconsumed on its channel
MaxOut == 2          \* most messages buffered on the way to one tire
MaxFaults == 1       \* most messages of a run whose length differs from the declared one
PlatformLength == 4000   \* the length SetPlatformLength is given
MantBits == 3        \* significant bits of a double
OddStepSize == 3     \* a micro-step that is no power of two
LongAdvance == 16    \* a macro step of several micro-steps

\* ------------------------------------------------------- program constants
DefaultNumLayers == 5    \* m_num_layers set by the constructor
DefaultRadiusG == 100    \* m_radius_g = 0.01
HdimZ == 5000            \* m_hdimZ = 0.5
Hthick == 1000           \* m_hthick = 0.1
HdimX == 10000           \* m_hdimX = 1.0
HdimY == 2500            \* m_hdimY = 0.25
HlenX == 0               \* m_hlenX = 0
TimeSettling == 2        \* m_time_settling = 0.4
ProxyLen == 1000         \* len = 0.1 of the placeholder triangle
Id_g == 100000           \* m_Id_g, first particle identifier
ProxyFamily == 1         \* collision family of the proxy bodies
NumSurfProps == 2        \* unsigned int surf_props[2]
NumMatProps == 8         \* float mat_props[8]
Precision == 6           \* significant digits a default output stream writes

Tires == 0 .. (NumTires - 1)

\* ----------------------------------------------------------------- vectors
Zero3 == <<0, 0, 0>>
QUnit == <<1, 0, 0, 0>>
QZero == <<0, 0, 0, 0>>

VAdd(a, b) == <<a[1] + b[1], a[2] + b[2], a[3] + b[3]>>
VSub(a, b) == <<a[1] - b[1], a[2] - b[2], a[3] - b[3]>>

\* C++ division of a value by an integer constant; exact on the sampled values
\* (truncation toward zero otherwise, which keeps the operator total).
DivT(x, n) == IF x >= 0 THEN x \div n ELSE -((-x) \div n)
VDiv(a, n) == <<DivT(a[1], n), DivT(a[2], n), DivT(a[3], n)>>

IsZero(f) == f = Zero3

RECURSIVE SeqSum(_)
SeqSum(s) == IF s = <<>> THEN 0 ELSE Head(s) + SeqSum(Tail(s))

RECURSIVE Pow2(_)
Pow2(n) == IF n = 0 THEN 1 ELSE 2 * Pow2(n - 1)

RECURSIVE Pow10(_)
Pow10(n) == IF n = 0 THEN 1 ELSE 10 * Pow10(n - 1)

RECURSIVE NumDigits(_)
NumDigits(n) == IF n < 10 THEN 1 ELSE 1 + NumDigits(n \div 10)

Abs(x) == IF x >= 0 THEN x ELSE -x

\* ------------------------------------------------------------ text streams
\* operator<< of a floating-point value on an output stream with the default
\* precision: the value rounded (half to even) to Precision significant digits.
FmtMag(m) ==
    IF NumDigits(m) <= Precision THEN m
    ELSE LET scale == Pow10(NumDigits(m) - Precision)
             q == m \div scale
             r == m % scale
         IN  IF 2 * r > scale \/ (2 * r = scale /\ q % 2 = 1)
             THEN (q + 1) * scale ELSE q * scale
FmtDouble(x) == IF x >= 0 THEN FmtMag(x) ELSE -FmtMag(-x)

\* operator<< of an int: all digits are written.
FmtInt(n) == n

FmtSeq(v) == [k \in 1 .. Len(v) |-> FmtDouble(v[k])]

\* ------------------------------------------------------------------ bodies
\* A body as made by NewBody: identifier 0, free, at rest at the origin,
\* collision family 0 with an empty family mask, no weld to ground.
NewBody ==
    [id |-> 0, kind |-> "none", fixed |-> FALSE, collide |-> FALSE, welded |-> FALSE,
     family |-> 0, nomask |-> {},
     pos |-> Zero3, rot |-> QUnit, pos_dt |-> Zero3, rot_dt |-> QZero]

\* Outcome k of a dynamics run for the body at index i of the body list.
\* Odd outcomes carry values of more than Precision significant digits.
Sample(k, i) ==
    LET big == IF k % 2 = 1 THEN 1234566 ELSE 0
    IN  [pos |-> <<big + 6 * i, -12 * k, 300 * k>>,
         rot |-> IF k % 2 = 1 THEN <<0, 1, 0, 0>> ELSE QUnit,
         pos_dt |-> <<3 * k, 0, -(big + 30)>>,
         rot_dt |-> <<0, 0, 3 * k, 0>>]

SetState(b, s) ==
    [b EXCEPT !.pos = s.pos, !.rot = s.rot, !.pos_dt = s.pos_dt, !.rot_dt = s.rot_dt]

VARIABLES
    m_type,                  \* "RIGID" or "GRANULAR", fixed by the constructor
    m_use_checkpoint,        \* constructor argument
    asserts,                 \* TRUE in a build that keeps assert (no NDEBUG)
    m_constructed,
    m_fixed_proxies,
    m_hlenX,                 \* half-length of the platform
    m_step_size,             \* micro-step of the node, a double
    m_radius_g,
    m_num_layers,
    m_num_particles,
    m_particles_start_index,
    m_proxy_start_index,
    m_init_height,
    bodies,                  \* m_system->Get_bodylist()
    ObA_rigid,               \* shape_data.ObA_rigid: position of every contact shape
    box_like_rigid,          \* shape_data.box_like_rigid: half-dimensions of every box
    triangle_rigid,          \* shape_data.triangle_rigid: three vertices per triangle
    chTime,                  \* m_system->GetChTime(), in dynamics steps
    m_tire_data,
    body_force,              \* contact force on each body after the last evaluation
    contacts,                \* reported contacts between two proxy bodies
    checkpoint,              \* the checkpoint file
    pc,                      \* where the terrain node is
    which,                   \* loop index of Initialize and Synchronize
    step_number,             \* argument of the running Synchronize
    start_index,             \* locals start_vert_index, start_tri_index of Initialize
    vert_data,               \* receive buffer of Synchronize
    vert_forces,             \* local vert_forces of Synchronize, between its two sends
    faults,                  \* history: number of messages sent with a deviating length
    chan,                    \* chan[i]: messages tire i has sent, not yet received
    outbox,                  \* outbox[i]: messages sent to tire i, not yet received
    toVehicle,               \* messages sent to the vehicle node
    tire,                    \* state of the tire nodes
    lastRecv,                \* history: the last receive the terrain completed
    trace,                   \* history: events of the running or last operation
    calls,                   \* history: number of operations the driver has called
    numInit                  \* history: number of Initialize calls

cfgVars == <<m_type, m_use_checkpoint, asserts, m_fixed_proxies, m_hlenX, m_step_size,
             m_radius_g, m_num_layers>>
sysVars == <<m_constructed, m_num_particles, m_particles_start_index, m_proxy_start_index,
             bodies, ObA_rigid, box_like_rigid>>
dynVars == <<m_init_height, triangle_rigid, chTime, body_force, contacts>>
netVars == <<chan, outbox, toVehicle, tire, faults>>
ctlVars == <<pc, which, step_number, start_index, vert_data, vert_forces>>
histVars == <<lastRecv, trace, calls, numInit>>
vars == <<cfgVars, sysVars, dynVars, netVars, ctlVars, histVars, m_tire_data, checkpoint>>

Idle == pc = "idle"

Aborted == pc \in {"abort_checkpoint", "abort_assert", "abort_mpi"}

\* ------------------------------------------------------------- Construct
\* Particles the generator creates: m_num_layers layers of npl bodies each,
\* identifiers counting up from m_Id_g, layer il at height 2 r (il + 1).
Particles(npl) ==
    LET r == (101 * m_radius_g) \div 100
    IN  [k \in 1 .. (m_num_layers * npl) |->
            [NewBody EXCEPT !.id = Id_g + (k - 1), !.kind = "particle", !.collide = TRUE,
                            !.pos = <<6 * ((k - 1) % npl), 0,
                                      2 * r * (((k - 1) \div npl) + 1)>>]]

\* Faulty variant of ContainerFree: the container is freed on either terrain.
ContainerFreeAnyType(type) == m_fixed_proxies

\* The container is made a free body welded to ground: if (m_fixed_proxies)
\* { ... if (m_type == RIGID) { container->SetBodyFixed(false); weld_c ... } }
ContainerFree(type) == m_fixed_proxies /\ type = "RIGID"

\* The body of Construct after its guard.
BuildTerrain(npl) ==
    LET hlenX == m_hlenX + Hthick
        free == m_fixed_proxies
        platform == [NewBody EXCEPT !.id = -2, !.kind = "platform", !.collide = TRUE,
                                    !.fixed = ~free, !.welded = free]
        container == [NewBody EXCEPT !.id = -1, !.kind = "container", !.collide = TRUE,
                                     !.fixed = ~ContainerFree(m_type),
                                     !.welded = ContainerFree(m_type)]
        ground == [NewBody EXCEPT !.id = -2, !.kind = "ground", !.fixed = TRUE,
                                  !.collide = FALSE]
        structure == bodies \o <<platform, container>>
                            \o (IF m_fixed_proxies THEN <<ground>> ELSE <<>>)
        parts == IF m_type = "GRANULAR" THEN Particles(npl) ELSE <<>>
        boxPos == <<<<-hlenX - HdimX, 0, HdimZ - Hthick>>,
                    <<0, 0, -Hthick>>,
                    <<HdimX + Hthick, 0, HdimZ - Hthick>>,
                    <<0, HdimY + Hthick, HdimZ - Hthick>>,
                    <<0, -HdimY - Hthick, HdimZ - Hthick>> >>
        boxDim == <<<<hlenX, HdimY, HdimZ + Hthick>>,
                    <<HdimX, HdimY, Hthick>>,
                    <<Hthick, HdimY, HdimZ + Hthick>>,
                    <<HdimX, Hthick, HdimZ + Hthick>>,
                    <<HdimX, Hthick, HdimZ + Hthick>> >>
        shapes == ObA_rigid \o boxPos \o [k \in 1 .. Len(parts) |-> Zero3]
    IN  [constructed |-> TRUE,
         bodies |-> structure \o parts,
         ObA_rigid |-> shapes,
         box_like_rigid |-> box_like_rigid \o boxDim,
         particles_start_index |-> Len(structure),
         num_particles |-> IF m_type = "GRANULAR" THEN Len(parts) ELSE m_num_particles,
         proxy_start_index |-> Len(shapes)]

\* Faulty variant of Construct: the guard on m_constructed is missing.
ConstructUnguarded(npl) == BuildTerrain(npl)

Construct(npl) ==
    IF m_constructed
    THEN [constructed |-> m_constructed,
          bodies |-> bodies,
          ObA_rigid |-> ObA_rigid,
          box_like_rigid |-> box_like_rigid,
          particles_start_index |-> m_particles_start_index,
          num_particles |-> m_num_particles,
          proxy_start_index |-> m_proxy_start_index]
    ELSE BuildTerrain(npl)

\* The assignments of a call of Construct whose outcome is c, for the state
\* Construct alone owns.
Constructed(c) ==
    /\ m_constructed' = c.constructed
    /\ m_num_particles' = c.num_particles
    /\ m_particles_start_index' = c.particles_start_index
    /\ m_proxy_start_index' = c.proxy_start_index

\* ------------------------------------------------------ the physics engine
\* DoStepDynamics: every body that is neither fixed nor welded to ground takes
\* its state of outcome k.
DoStepDynamics(bs, k) ==
    [i \in 1 .. Len(bs) |->
        IF ~bs[i].fixed /\ ~bs[i].welded THEN SetState(bs[i], Sample(k, i)) ELSE bs[i]]

NoForce(bs) == [i \in 1 .. Len(bs) |-> Zero3]

CeilDiv(a, b) == (a + b - 1) \div b

\* --------------------------------------------------------- checkpoint file
NoFile == [exists |-> FALSE, time |-> 0, count |-> 0, recs |-> <<>>]

\* One line of the file: id x y z qw qx qy qz vx vy vz wqw wqx wqy wqz.
Line(b) == <<FmtInt(b.id)>> \o FmtSeq(b.pos) \o FmtSeq(b.rot)
                            \o FmtSeq(b.pos_dt) \o FmtSeq(b.rot_dt)

IsGranularBody(b) == b.id >= Id_g

\* Faulty variant of Lines: a line for every body of the system.
LinesOfAll(bs) == [j \in 1 .. Len(bs) |-> Line(bs[j])]

RECURSIVE Lines(_)
Lines(bs) ==
    IF bs = <<>> THEN <<>>
    ELSE IF Head(bs).id < Id_g THEN Lines(Tail(bs))
    ELSE <<Line(Head(bs))>> \o Lines(Tail(bs))

\* The file WriteCheckpoint leaves.
CheckpointOf(bs) ==
    [exists |-> TRUE, time |-> FmtDouble(chTime), count |-> FmtInt(m_num_particles),
     recs |-> Lines(bs)]

\* The j-th body line as Settle extracts it: the fields of the line, or, past the
\* end of the file, an identifier that was never assigned (junkId) and the
\* default-constructed null vectors and quaternions.
RecordAt(j, junkId) ==
    IF checkpoint.exists /\ j <= Len(checkpoint.recs) THEN checkpoint.recs[j]
    ELSE <<junkId>> \o [k \in 1 .. 14 |-> 0]

\* Faulty variant of StateOfRecord: position and linear velocity interchanged.
StateOfRecordSwapped(rec) ==
    [pos |-> <<rec[9], rec[10], rec[11]>>,
     rot |-> <<rec[5], rec[6], rec[7], rec[8]>>,
     pos_dt |-> <<rec[2], rec[3], rec[4]>>,
     rot_dt |-> <<rec[12], rec[13], rec[14], rec[15]>>]

StateOfRecord(rec) ==
    [pos |-> <<rec[2], rec[3], rec[4]>>,
     rot |-> <<rec[5], rec[6], rec[7], rec[8]>>,
     pos_dt |-> <<rec[9], rec[10], rec[11]>>,
     rot_dt |-> <<rec[12], rec[13], rec[14], rec[15]>>]

\* Index of the first body whose identifier differs from its line's, 0 if none.
FirstMismatch(bs, start, junkId) ==
    LET bad == {ib \in (start + 1) .. Len(bs) : bs[ib].id # RecordAt(ib - start, junkId)[1]}
    IN  IF bad = {} THEN 0 ELSE CHOOSE ib \in bad : \A o \in bad : ib <= o

\* The bodies after the read loop has run over the indices start+1 .. upto-1.
Restored(bs, start, junkId, upto) ==
    [i \in 1 .. Len(bs) |->
        IF i > start /\ i < upto
        THEN SetState(bs[i], StateOfRecord(RecordAt(i - start, junkId)))
        ELSE bs[i]]

\* "Height" of the granular material.
InitHeight(bs) ==
    LET zs == {bs[i].pos[3] : i \in {j \in 1 .. Len(bs) : bs[j].id > 0 /\ bs[j].pos[3] > 0}}
    IN  (IF zs = {} THEN 0 ELSE CHOOSE z \in zs : \A o \in zs : z >= o) + m_radius_g

\* ------------------------------------------------------------ initial state
JunkIds == {0, Id_g}

\* A checkpoint file left by an earlier run that had n particles.
EarlierFile(n) ==
    [exists |-> TRUE, time |-> 0, count |-> n,
     recs |-> [j \in 1 .. n |->
                 Line(SetState([NewBody EXCEPT !.id = Id_g + (j - 1)], Sample(1, j)))]]

InitFiles == {NoFile, EarlierFile(1), EarlierFile(DefaultNumLayers)}

NewTireData ==
    [m_num_vert |-> 0, m_num_tri |-> 0, m_start_vert |-> 0, m_start_tri |-> 0,
     m_vertex_states |-> <<>>, m_triangles |-> <<>>, m_proxies |-> <<>>,
     m_material_tire |-> <<>>]

NewTire == [sent |-> "none", nv |-> 0, nt |-> 0, step |-> 0, runs |-> 1]

NoRecv == [src |-> -1, tag |-> -1, got |-> 0, want |-> 0, what |-> "none"]

Init ==
    /\ m_type \in {"RIGID", "GRANULAR"}
    /\ m_use_checkpoint \in BOOLEAN
    /\ asserts \in BOOLEAN
    /\ m_constructed = FALSE
    /\ m_fixed_proxies = FALSE
    /\ m_hlenX = HlenX
    /\ m_step_size \in {StepSize, OddStepSize}
    /\ m_radius_g = DefaultRadiusG
    /\ m_num_layers = DefaultNumLayers
    /\ m_num_particles = 0
    /\ m_particles_start_index = 0
    /\ m_proxy_start_index = 0
    /\ m_init_height = 0
    /\ bodies = <<>>
    /\ ObA_rigid = <<>>
    /\ box_like_rigid = <<>>
    /\ triangle_rigid = <<>>
    /\ chTime = 0
    /\ m_tire_data = [i \in Tires |-> NewTireData]
    /\ body_force = <<>>
    /\ contacts = {}
    /\ checkpoint \in InitFiles
    /\ pc = "idle"
    /\ which = 0
    /\ step_number = 0
    /\ start_index = <<0, 0>>
    /\ vert_data = <<>>
    /\ vert_forces = <<>>
    /\ faults = 0
    /\ chan = [i \in Tires |-> <<>>]
    /\ outbox = [i \in Tires |-> <<>>]
    /\ toVehicle = <<>>
    /\ tire = [i \in Tires |-> NewTire]
    /\ lastRecv = NoRecv
    /\ trace = <<>>
    /\ calls = 0
    /\ numInit = 0

\* --------------------------------------------------------- configuration
\* SetGranularMaterial(radius, density, num_layers)
SetGranularMaterial(radius, layers) ==
    /\ Idle
    /\ calls < MaxCalls
    /\ calls' = calls + 1
    /\ IF asserts /\ m_type # "GRANULAR"
       THEN /\ pc' = "abort_assert"
            /\ UNCHANGED <<m_radius_g, m_num_layers>>
       ELSE /\ m_radius_g' = radius
            /\ m_num_layers' = layers
            /\ pc' = pc
    /\ UNCHANGED <<m_type, m_use_checkpoint, asserts, m_fixed_proxies, m_hlenX, m_step_size, sysVars, dynVars,
                   netVars, which, step_number, start_index, vert_data, vert_forces, lastRecv, trace,
                   numInit, m_tire_data, checkpoint>>

\* SetPlatformLength(length)
SetPlatformLength(length) ==
    /\ Idle
    /\ calls < MaxCalls
    /\ calls' = calls + 1
    /\ m_hlenX' = DivT(length, 2)
    /\ UNCHANGED <<m_type, m_use_checkpoint, asserts, m_fixed_proxies, m_step_size, m_radius_g,
                   m_num_layers, sysVars, dynVars, netVars, ctlVars, lastRecv, trace, numInit,
                   m_tire_data, checkpoint>>

\* SetProxyProperties(mass, radius, fixed) when forType = "RIGID",
\* SetProxyProperties(mass, fixed) when forType = "GRANULAR".
SetProxyProperties(forType, fixed) ==
    /\ Idle
    /\ calls < MaxCalls
    /\ calls' = calls + 1
    /\ IF asserts /\ m_type # forType
       THEN /\ pc' = "abort_assert"
            /\ UNCHANGED m_fixed_proxies
       ELSE /\ m_fixed_proxies' = fixed
            /\ pc' = pc
    /\ UNCHANGED <<m_type, m_use_checkpoint, asserts, m_hlenX, m_step_size, m_radius_g, m_num_layers, sysVars,
                   dynVars, netVars, which, step_number, start_index, vert_data, vert_forces, lastRecv,
                   trace, numInit, m_tire_data, checkpoint>>

\* ---------------------------------------------------------------- Construct
DoConstruct(npl) ==
    /\ Idle
    /\ calls < MaxCalls
    /\ calls' = calls + 1
    /\ LET c == Construct(npl)
       IN  /\ Constructed(c)
           /\ bodies' = c.bodies
           /\ ObA_rigid' = c.ObA_rigid
           /\ box_like_rigid' = c.box_like_rigid
    /\ UNCHANGED <<cfgVars, dynVars, netVars, ctlVars, lastRecv, trace, numInit,
                   m_tire_data, checkpoint>>

\* ------------------------------------------------------------------- Settle
\* The number of particles on line 2 of the file; with no such line the
\* extraction fails and leaves the local as it was, never assigned (junk).
CountInFile(junk) == IF checkpoint.exists THEN checkpoint.count ELSE junk

\* Faulty variant of CountMatches: the count of the file is not looked at.
CountUnchecked(num_particles, expected) == TRUE

\* The test that guards the read loop: num_particles != m_num_particles aborts.
CountMatches(num_particles, expected) == num_particles = expected

Settle(npl, k, junk, junkId) ==
    /\ Idle
    /\ calls < MaxCalls
    /\ calls' = calls + 1
    /\ IF asserts /\ m_type # "GRANULAR"
       THEN /\ pc' = "abort_assert"
            /\ UNCHANGED <<sysVars, m_init_height, chTime>>
       ELSE LET c == Construct(npl)
                start == c.particles_start_index
                bad == FirstMismatch(c.bodies, start, junkId)
            IN  /\ Constructed(c)
                /\ ObA_rigid' = c.ObA_rigid
                /\ box_like_rigid' = c.box_like_rigid
                /\ IF m_use_checkpoint
                   THEN IF ~CountMatches(CountInFile(junk), c.num_particles)
                        THEN /\ pc' = "abort_checkpoint"
                             /\ bodies' = c.bodies
                             /\ UNCHANGED <<m_init_height, chTime>>
                        ELSE IF asserts /\ bad # 0
                        THEN /\ pc' = "abort_assert"
                             /\ bodies' = Restored(c.bodies, start, junkId, bad)
                             /\ UNCHANGED <<m_init_height, chTime>>
                        ELSE /\ pc' = pc
                             /\ bodies' = Restored(c.bodies, start, junkId, Len(c.bodies) + 1)
                             /\ m_init_height' = InitHeight(bodies')
                             /\ UNCHANGED chTime
                   ELSE /\ chTime + CeilDiv(TimeSettling, m_step_size) * m_step_size <= MaxTime
                        /\ pc' = pc
                        /\ bodies' = DoStepDynamics(c.bodies, k)
                        /\ chTime' = chTime + CeilDiv(TimeSettling, m_step_size) * m_step_size
                        /\ m_init_height' = InitHeight(bodies')
    /\ body_force' = NoForce(bodies')
    /\ UNCHANGED <<cfgVars, triangle_rigid, contacts, netVars, which, step_number,
                   start_index, vert_data, vert_forces, lastRecv, trace, numInit, m_tire_data, checkpoint>>

\* ---------------------------------------------------------- WriteCheckpoint
WriteCheckpoint ==
    /\ Idle
    /\ calls < MaxCalls
    /\ calls' = calls + 1
    /\ checkpoint' = CheckpointOf(bodies)
    /\ UNCHANGED <<cfgVars, sysVars, dynVars, netVars, ctlVars, lastRecv, trace, numInit,
                   m_tire_data>>

\* ------------------------------------------------------------------ Advance
\* A double has MantBits significant bits; the result of an addition or a
\* subtraction is rounded to the nearest double, ties to the even significand.
\* Double values are counted in units of the smallest step size of interest.
RECURSIVE Ulp(_)
Ulp(x) == IF x < Pow2(MantBits) THEN 1 ELSE 2 * Ulp(x \div 2)

RoundDouble(x) ==
    LET q == Ulp(x)
        lo == (x \div q) * q
        rem == x - lo
    IN  IF 2 * rem < q THEN lo
        ELSE IF 2 * rem > q THEN lo + q
        ELSE IF (lo \div q) % 2 = 0 THEN lo ELSE lo + q

FAdd(a, b) == RoundDouble(a + b)
FSub(a, b) == RoundDouble(a - b)

\* The sizes of the internal steps of Advance(step_size), t being the time covered:
\* while (t < step_size) { h = min(m_step_size, step_size - t); ...; t += h; }
RECURSIVE AdvanceSteps(_, _)
AdvanceSteps(t, step_size) ==
    IF t < step_size
    THEN LET rest == FSub(step_size, t)
             h == IF m_step_size <= rest THEN m_step_size ELSE rest
         IN  <<h>> \o AdvanceSteps(FAdd(t, h), step_size)
    ELSE <<>>

\* Advance records its argument and the sizes of its internal steps in trace.
Advance(step_size, k) ==
    /\ Idle
    /\ calls < MaxCalls
    /\ calls' = calls + 1
    /\ LET hs == AdvanceSteps(0, step_size)
       IN  /\ chTime' = chTime + SeqSum(hs)
           /\ bodies' = IF hs = <<>> THEN bodies ELSE DoStepDynamics(bodies, k)
           /\ trace' = << <<"advance", step_size>> >> \o [j \in 1 .. Len(hs) |-> <<"step", hs[j]>>]
    /\ body_force' = NoForce(bodies')
    /\ UNCHANGED <<cfgVars, m_constructed, m_num_particles, m_particles_start_index,
                   m_proxy_start_index, ObA_rigid, box_like_rigid, m_init_height,
                   triangle_rigid, contacts, netVars, ctlVars, lastRecv, numInit,
                   m_tire_data, checkpoint>>

\* ------------------------------------------------------- message passing
\* Faulty variant of MoreTires: the loop stops one tire early.
MoreTiresButLast(w) == w < NumTires - 1

\* The condition of the loop over the tires (which < m_num_tires).
MoreTires(w) == w < NumTires

\* Faulty variant of TIRE_NODE_RANK: a receive from any source, which takes the
\* message of the highest-ranked tire that has one waiting.
AnyTireRank(w) ==
    LET ready == {j \in 0 .. (NumTires - 1) : chan[j] # <<>>}
    IN  IF ready = {} THEN w ELSE CHOOSE j \in ready : \A o \in ready : j >= o

\* TIRE_NODE_RANK(which): the peer of the receives and sends for tire `which`,
\* named by the index of its channel.
TIRE_NODE_RANK(w) == w

\* Faulty variant of NextTire: every other tire is skipped.
NextTireSkipping(w) == w + 2

\* The increment of the loop over the tires (which++).
NextTire(w) == w + 1

\* A message is [tag, type, data]; type is the element type of the send.
ElemSize(type) == IF type = "double" THEN 8 ELSE 4

Msg(tag, type, data) == [tag |-> tag, type |-> type, data |-> data]

\* Faulty variant of MatchIdx: the tag is ignored, the oldest message is taken.
MatchOldest(q, tag) == IF q = <<>> THEN 0 ELSE 1

\* Faulty variant of MatchIdx: without a message of the tag, the receive makes
\* do with the oldest message.
MatchTagOrOldest(q, tag) ==
    LET hits == {k \in 1 .. Len(q) : q[k].tag = tag}
    IN  IF hits = {} THEN (IF q = <<>> THEN 0 ELSE 1)
        ELSE CHOOSE k \in hits : \A o \in hits : k <= o

\* Position in queue q of the first message with the given tag, 0 if none:
\* MPI_Recv from one source with one tag takes the oldest matching message.
MatchIdx(q, tag) ==
    LET hits == {k \in 1 .. Len(q) : q[k].tag = tag}
    IN  IF hits = {} THEN 0 ELSE CHOOSE k \in hits : \A o \in hits : k <= o

RemoveAt(q, k) == [j \in 1 .. (Len(q) - 1) |-> IF j < k THEN q[j] ELSE q[j + 1]]

\* A message longer than the receive buffer is a truncation error, which the
\* default error handler of the communicator turns into an abort of the job.
Truncates(m, count, type) == Len(m.data) * ElemSize(m.type) > count * ElemSize(type)

\* The receive buffer after a successful MPI_Recv of message m into count
\* elements of the given type: the elements delivered, the rest of the buffer
\* left as it was, never assigned (junk).  Elements sent as another type are
\* reinterpreted bytes.
RecvBuffer(m, count, type, junk) ==
    [k \in 1 .. count |->
        IF m.type = type /\ k <= Len(m.data) THEN m.data[k] ELSE junk]

RecvRecord(src, m, count, what) ==
    [src |-> src, tag |-> m.tag, got |-> Len(m.data), want |-> count, what |-> what]

\* vector::resize: the first n elements kept, new ones value-initialised.
Resize(v, n, d) == [k \in 1 .. n |-> IF k <= Len(v) THEN v[k] ELSE d]

NoVertexState == [pos |-> Zero3, vel |-> Zero3]
NoTriangle == <<0, 0, 0>>

JunkCounts == {0, 1}
JunkVals == {0, 9}

\* --------------------------------------------------------------- Initialize
\* Faulty variant of AdjustedPos: the box centred between the origin and the top.
AdjustedPosFromOrigin(pos0, hdims0) ==
    <<pos0[1], pos0[2], DivT(m_init_height, 2)>>

\* The platform box, contact shape 0, resized so that its top is at m_init_height.
AdjustedPos(pos0, hdims0) ==
    LET zmin == pos0[3] - hdims0[3]
        height == m_init_height - zmin
    IN  <<pos0[1], pos0[2], zmin + DivT(height, 2)>>

AdjustedDims(pos0, hdims0) ==
    LET zmin == pos0[3] - hdims0[3]
        height == m_init_height - zmin
    IN  <<hdims0[1], hdims0[2], DivT(height, 2)>>

\* Faulty variant of StartIndexAfter: the two counts interchanged.
StartIndexSwapped(start, surf_props) ==
    <<start[1] + surf_props[2], start[2] + surf_props[1]>>

\* start_vert_index += surf_props[0]; start_tri_index += surf_props[1];
StartIndexAfter(start, surf_props) ==
    <<start[1] + surf_props[1], start[2] + surf_props[2]>>

\* Faulty variant of InitDim: the platform counted with its half-length.
InitDimHalfPlatform == <<m_init_height, HdimX + m_hlenX>>

\* double init_dim[2] = {m_init_height, m_hdimX + 2 * m_hlenX};
InitDim == <<m_init_height, HdimX + 2 * m_hlenX>>

InitializeBegin(npl) ==
    /\ Idle
    /\ numInit < MaxInit
    /\ calls < MaxCalls
    /\ calls' = calls + 1
    /\ numInit' = numInit + 1
    /\ LET c == Construct(npl)
       IN  /\ Constructed(c)
           /\ bodies' = c.bodies
           /\ ObA_rigid' = [c.ObA_rigid EXCEPT
                              ![1] = AdjustedPos(c.ObA_rigid[1], c.box_like_rigid[1])]
           /\ box_like_rigid' = [c.box_like_rigid EXCEPT
                              ![1] = AdjustedDims(c.ObA_rigid[1], c.box_like_rigid[1])]
    /\ chTime' = 0
    /\ toVehicle' = Append(toVehicle, Msg(0, "double", InitDim))
    /\ start_index' = <<0, 0>>
    /\ which' = 0
    /\ pc' = IF MoreTires(0) THEN "init_recv_props" ELSE "idle"
    /\ trace' = <<>>
    /\ UNCHANGED <<cfgVars, m_init_height, triangle_rigid, body_force, contacts, chan,
                   outbox, tire, faults, step_number, vert_data, vert_forces, lastRecv, m_tire_data, checkpoint>>

\* MPI_Recv(surf_props, 2, MPI_UNSIGNED, TIRE_NODE_RANK(which), 0, ...) and the
\* sizing of the tire's arrays.
InitRecvProps(junk) ==
    /\ pc = "init_recv_props"
    /\ MatchIdx(chan[TIRE_NODE_RANK(which)], 0) # 0
    /\ LET k == MatchIdx(chan[TIRE_NODE_RANK(which)], 0)
           m == chan[TIRE_NODE_RANK(which)][k]
           surf_props == RecvBuffer(m, NumSurfProps, "uint", junk)
           td == m_tire_data[which]
       IN  /\ chan' = [chan EXCEPT ![TIRE_NODE_RANK(which)] = RemoveAt(chan[TIRE_NODE_RANK(which)], k)]
           /\ lastRecv' = RecvRecord(TIRE_NODE_RANK(which), m, NumSurfProps, "props")
           /\ IF Truncates(m, NumSurfProps, "uint")
              THEN /\ pc' = "abort_mpi"
                   /\ UNCHANGED <<m_tire_data, start_index, trace>>
              ELSE /\ pc' = "init_recv_mat"
                   /\ m_tire_data' = [m_tire_data EXCEPT ![which] =
                        [td EXCEPT !.m_num_vert = surf_props[1],
                                   !.m_num_tri = surf_props[2],
                                   !.m_vertex_states =
                                       Resize(td.m_vertex_states, surf_props[1], NoVertexState),
                                   !.m_triangles =
                                       Resize(td.m_triangles, surf_props[2], NoTriangle),
                                   !.m_start_vert = start_index[1],
                                   !.m_start_tri = start_index[2]]]
                   /\ start_index' = StartIndexAfter(start_index, surf_props)
                   /\ trace' = Append(trace, <<"recv_props", which>>)
    /\ UNCHANGED <<cfgVars, sysVars, dynVars, outbox, toVehicle, tire, faults, which, step_number,
                   vert_data, vert_forces, calls, numInit, checkpoint>>

\* Faulty variant of ProxyBodyOf: the family is set, its mask is not.
ProxyBodyUnmasked(id) ==
    [NewBody EXCEPT !.id = id, !.kind = "proxy", !.fixed = m_fixed_proxies,
                    !.collide = TRUE, !.family = ProxyFamily]

\* The body of one proxy, as CreateNodeProxies and CreateFaceProxies set it up.
ProxyBodyOf(id) ==
    [NewBody EXCEPT !.id = id, !.kind = "proxy", !.fixed = m_fixed_proxies,
                    !.collide = TRUE, !.family = ProxyFamily, !.nomask = {ProxyFamily}]

\* CreateNodeProxies(which) / CreateFaceProxies(which): n new bodies whose
\* identifiers count up from start, appended to the body list bs, and their
\* ProxyBody entries appended to the tire's list.
NewProxyBodies(n, start) == [j \in 1 .. n |-> ProxyBodyOf(start + (j - 1))]

NewProxyEntries(n, nbodies) == [j \in 1 .. n |-> [body |-> nbodies + j, index |-> j - 1]]

CreateNodeProxies(td) ==
    [td EXCEPT !.m_proxies = @ \o NewProxyEntries(td.m_num_vert, Len(bodies))]

CreateFaceProxies(td) ==
    [td EXCEPT !.m_proxies = @ \o NewProxyEntries(td.m_num_tri, Len(bodies))]

PlaceholderTriangle == <<<<ProxyLen, 0, 0>>, <<0, ProxyLen, 0>>, <<0, 0, ProxyLen>> >>

RECURSIVE Repeat(_, _)
Repeat(s, n) == IF n = 0 THEN <<>> ELSE s \o Repeat(s, n - 1)

\* MPI_Recv(mat_props, 8, MPI_FLOAT, TIRE_NODE_RANK(which), 0, ...), the tire
\* material, and the creation of the tire's proxies.
InitRecvMat(junk) ==
    /\ pc = "init_recv_mat"
    /\ MatchIdx(chan[TIRE_NODE_RANK(which)], 0) # 0
    /\ LET k == MatchIdx(chan[TIRE_NODE_RANK(which)], 0)
           m == chan[TIRE_NODE_RANK(which)][k]
           mat_props == RecvBuffer(m, NumMatProps, "float", junk)
           td == [m_tire_data[which] EXCEPT !.m_material_tire = mat_props]
           n == IF m_type = "RIGID" THEN td.m_num_vert ELSE td.m_num_tri
           start == IF m_type = "RIGID" THEN td.m_start_vert ELSE td.m_start_tri
       IN  /\ chan' = [chan EXCEPT ![TIRE_NODE_RANK(which)] = RemoveAt(chan[TIRE_NODE_RANK(which)], k)]
           /\ lastRecv' = RecvRecord(TIRE_NODE_RANK(which), m, NumMatProps, "mat")
           /\ IF Truncates(m, NumMatProps, "float")
              THEN /\ pc' = "abort_mpi"
                   /\ UNCHANGED <<m_tire_data, bodies, ObA_rigid, triangle_rigid,
                                  body_force, which, trace>>
              ELSE /\ m_tire_data' = [m_tire_data EXCEPT ![which] =
                          IF m_type = "RIGID" THEN CreateNodeProxies(td)
                                              ELSE CreateFaceProxies(td)]
                   /\ bodies' = bodies \o NewProxyBodies(n, start)
                   /\ ObA_rigid' = ObA_rigid \o [j \in 1 .. n |-> Zero3]
                   /\ triangle_rigid' =
                          IF m_type = "RIGID" THEN triangle_rigid
                          ELSE triangle_rigid \o Repeat(PlaceholderTriangle, n)
                   /\ body_force' = NoForce(bodies')
                   /\ which' = NextTire(which)
                   /\ pc' = IF MoreTires(NextTire(which)) THEN "init_recv_props" ELSE "idle"
                   /\ trace' = trace \o << <<"recv_mat", which>>, <<"proxies", which>> >>
    /\ UNCHANGED <<cfgVars, m_constructed, m_num_particles, m_particles_start_index,
                   m_proxy_start_index, box_like_rigid, m_init_height, chTime, contacts,
                   outbox, toVehicle, tire, faults, step_number, start_index, vert_data, vert_forces, calls,
                   numInit, checkpoint>>

\* -------------------------------------------------------------- Synchronize
SynchronizeBegin(step) ==
    /\ Idle
    /\ calls < MaxCalls
    /\ calls' = calls + 1
    /\ step_number' = step
    /\ which' = 0
    /\ pc' = IF MoreTires(0) THEN "sync_recv_vert" ELSE "idle"
    /\ trace' = <<>>
    /\ UNCHANGED <<cfgVars, sysVars, dynVars, netVars, start_index, vert_data, vert_forces, lastRecv,
                   numInit, m_tire_data, checkpoint>>

\* Faulty variant of VertCount: room for the positions only.
VertCountPositions(td) == 3 * td.m_num_vert

\* The sizes of the two receive buffers of Synchronize.
VertCount(td) == 2 * 3 * td.m_num_vert

TriCount(td) == 3 * td.m_num_tri

\* MPI_Recv(vert_data, 2 * 3 * num_vert, MPI_DOUBLE, TIRE_NODE_RANK(which), step_number, ...)
SyncRecvVert(junk) ==
    /\ pc = "sync_recv_vert"
    /\ MatchIdx(chan[TIRE_NODE_RANK(which)], step_number) # 0
    /\ LET k == MatchIdx(chan[TIRE_NODE_RANK(which)], step_number)
           m == chan[TIRE_NODE_RANK(which)][k]
           count == VertCount(m_tire_data[which])
       IN  /\ chan' = [chan EXCEPT ![TIRE_NODE_RANK(which)] = RemoveAt(chan[TIRE_NODE_RANK(which)], k)]
           /\ lastRecv' = RecvRecord(TIRE_NODE_RANK(which), m, count, "vert")
           /\ IF Truncates(m, count, "double")
              THEN /\ pc' = "abort_mpi"
                   /\ UNCHANGED <<vert_data, trace>>
              ELSE /\ pc' = "sync_recv_tri"
                   /\ vert_data' = RecvBuffer(m, count, "double", junk)
                   /\ trace' = Append(trace, <<"recv_vert", which>>)
    /\ UNCHANGED <<cfgVars, sysVars, dynVars, outbox, toVehicle, tire, faults, which,
                   step_number, start_index, vert_forces, calls, numInit, m_tire_data,
                   checkpoint>>

\* Faulty variant of Unpacked: position and velocity of a vertex taken as six
\* consecutive scalars.
UnpackedInterleaved(td, vdata, tdata) ==
    [td EXCEPT
        !.m_vertex_states =
            [iv \in 1 .. td.m_num_vert |->
                LET offset == 6 * (iv - 1)
                IN  [pos |-> <<vdata[offset + 1], vdata[offset + 2], vdata[offset + 3]>>,
                     vel |-> <<vdata[offset + 4], vdata[offset + 5], vdata[offset + 6]>>]],
        !.m_triangles =
            [it \in 1 .. td.m_num_tri |->
                <<tdata[3 * (it - 1) + 1], tdata[3 * (it - 1) + 2], tdata[3 * (it - 1) + 3]>>]]

\* The loops of Synchronize that unpack the two receive buffers.
Unpacked(td, vdata, tdata) ==
    [td EXCEPT
        !.m_vertex_states =
            [iv \in 1 .. td.m_num_vert |->
                LET offset == 3 * (iv - 1)
                    voff == offset + 3 * td.m_num_vert
                IN  [pos |-> <<vdata[offset + 1], vdata[offset + 2], vdata[offset + 3]>>,
                     vel |-> <<vdata[voff + 1], vdata[voff + 2], vdata[voff + 3]>>]],
        !.m_triangles =
            [it \in 1 .. td.m_num_tri |->
                <<tdata[3 * (it - 1) + 1], tdata[3 * (it - 1) + 2], tdata[3 * (it - 1) + 3]>>]]

\* Index (from 1) of the proxy entry of tire data td that holds body i among the
\* first n entries, 0 if none.
EntryOf(td, n, i) ==
    LET hits == {j \in 1 .. n : td.m_proxies[j].body = i}
    IN  IF hits = {} THEN 0 ELSE CHOOSE j \in hits : \A o \in hits : j >= o

UpdateNodeProxies(bs, td) ==
    [i \in 1 .. Len(bs) |->
        LET iv == EntryOf(td, td.m_num_vert, i)
        IN  IF iv = 0 THEN bs[i]
            ELSE [bs[i] EXCEPT !.pos = td.m_vertex_states[iv].pos,
                               !.pos_dt = td.m_vertex_states[iv].vel,
                               !.rot = QUnit,
                               !.rot_dt = QZero]]

\* m_vertex_states[v]: the element, or, for an index outside the vector, whatever
\* the memory there holds (junkState).
VertexAt(td, v, junkState) ==
    IF v \in 0 .. (Len(td.m_vertex_states) - 1) THEN td.m_vertex_states[v + 1] ELSE junkState

OutOfRange(td) ==
    \E it \in 1 .. td.m_num_tri : \E c \in 1 .. 3 :
        td.m_triangles[it][c] \notin 0 .. (Len(td.m_vertex_states) - 1)

Centroid(td, it, junkState) ==
    VDiv(VAdd(VAdd(VertexAt(td, td.m_triangles[it][1], junkState).pos,
                   VertexAt(td, td.m_triangles[it][2], junkState).pos),
              VertexAt(td, td.m_triangles[it][3], junkState).pos), 3)

MeanVel(td, it, junkState) ==
    VDiv(VAdd(VAdd(VertexAt(td, td.m_triangles[it][1], junkState).vel,
                   VertexAt(td, td.m_triangles[it][2], junkState).vel),
              VertexAt(td, td.m_triangles[it][3], junkState).vel), 3)

UpdateFaceProxies(bs, td, junkState) ==
    [i \in 1 .. Len(bs) |->
        LET it == EntryOf(td, td.m_num_tri, i)
        IN  IF it = 0 THEN bs[i]
            ELSE [bs[i] EXCEPT !.pos = Centroid(td, it, junkState),
                               !.rot = QUnit,
                               !.pos_dt = MeanVel(td, it, junkState),
                               !.rot_dt = QZero]]

\* Faulty variant of UpdateFaceShapes: the slots counted from the tire's own
\* first triangle, without the start offset of the tire.
UpdateFaceShapesLocal(tr, td, junkState) ==
    [j \in 1 .. Len(tr) |->
        LET it == ((j - 1) \div 3) + 1
            c == ((j - 1) % 3) + 1
        IN  IF it <= td.m_num_tri
            THEN VSub(VertexAt(td, td.m_triangles[it][c], junkState).pos,
                      Centroid(td, it, junkState))
            ELSE tr[j]]

\* The writes of UpdateFaceProxies into shape_data.triangle_rigid.
UpdateFaceShapes(tr, td, junkState) ==
    [j \in 1 .. Len(tr) |->
        LET rel == (j - 1) - 3 * td.m_start_tri
            it == (rel \div 3) + 1
            c == (rel % 3) + 1
        IN  IF rel >= 0 /\ it <= td.m_num_tri
            THEN VSub(VertexAt(td, td.m_triangles[it][c], junkState).pos,
                      Centroid(td, it, junkState))
            ELSE tr[j]]

\* -------------------------------------------- CalculateContactForces (engine)
\* The engine's broad-phase filter: both bodies collide, they are not both
\* fixed to ground, and neither family is masked by the other body.
Collides(a, b) ==
    /\ a.collide /\ b.collide
    /\ ~(a.fixed /\ b.fixed)
    /\ a.family \notin b.nomask
    /\ b.family \notin a.nomask

Range(f) == {f[x] : x \in DOMAIN f}

ProxiesOf(td) == {e.body : e \in Range(td.m_proxies)}
AllProxies(tds) == UNION {ProxiesOf(tds[i]) : i \in Tires}

CanTouch(bs, i) == \E j \in 1 .. Len(bs) : j # i /\ Collides(bs[i], bs[j])

\* The non-zero contact force the engine reports on body i: a sample that
\* differs from body to body and whose components are multiples of 3.
ContactForce(i) == <<3 * i, 0, -6 * i>>

\* The force on body i in a field whose loaded bodies are S: the sample of the
\* body, or, in a field with a cancelling pair, for the last body of S the
\* opposite of the force on the first.
FieldForce(S, cancel, i) ==
    LET lo == CHOOSE a \in S : \A o \in S : a <= o
        hi == CHOOSE a \in S : \A o \in S : a >= o
    IN  IF cancel /\ i = hi /\ hi # lo
        THEN <<-ContactForce(lo)[1], -ContactForce(lo)[2], -ContactForce(lo)[3]>>
        ELSE ContactForce(i)

\* The force fields the engine may report: at most MaxContacts proxies that some
\* body may touch carry a non-zero force, two of them possibly opposite forces.
ForceFields(bs, tds) ==
    LET cand == {i \in AllProxies(tds) : CanTouch(bs, i)}
        sets == {S \in SUBSET cand : Cardinality(S) <= MaxContacts}
    IN  {[i \in 1 .. Len(bs) |-> IF i \in S THEN FieldForce(S, cancel, i) ELSE Zero3] :
            S \in sets, cancel \in BOOLEAN}

\* The contacts reported between two proxies, all proxies being taken as close
\* to each other as the filter has to cope with.
ProxyContacts(bs, tds) ==
    {pr \in {{i, j} : i \in AllProxies(tds), j \in AllProxies(tds)} :
        /\ Cardinality(pr) = 2
        /\ \A i \in pr : \A j \in pr : i # j => Collides(bs[i], bs[j])}

\* MPI_Recv(tri_data, 3 * num_tri, MPI_INT, ...), the unpacking of both buffers,
\* the update of the tire's proxies and, after the last tire, the evaluation of
\* the contact forces.
SyncRecvTri(junk, junkState, crash) ==
    /\ pc = "sync_recv_tri"
    /\ MatchIdx(chan[TIRE_NODE_RANK(which)], step_number) # 0
    /\ LET k == MatchIdx(chan[TIRE_NODE_RANK(which)], step_number)
           m == chan[TIRE_NODE_RANK(which)][k]
           count == TriCount(m_tire_data[which])
           tri_data == RecvBuffer(m, count, "int", junk)
           last == ~MoreTires(NextTire(which))
       IN  \E td \in {Unpacked(m_tire_data[which], vert_data, tri_data)} :
           \E tds \in {[m_tire_data EXCEPT ![which] = td]} :
           \E bs \in {IF m_type = "RIGID" THEN UpdateNodeProxies(bodies, td)
                                          ELSE UpdateFaceProxies(bodies, td, junkState)} :
           /\ chan' = [chan EXCEPT ![TIRE_NODE_RANK(which)] = RemoveAt(chan[TIRE_NODE_RANK(which)], k)]
           /\ lastRecv' = RecvRecord(TIRE_NODE_RANK(which), m, count, "tri")
           /\ IF Truncates(m, count, "int")
              THEN /\ pc' = "abort_mpi"
                   /\ UNCHANGED <<m_tire_data, bodies, triangle_rigid, body_force, contacts,
                                  which, vert_data, trace>>
              ELSE IF m_type = "GRANULAR" /\ OutOfRange(td) /\ crash
              THEN /\ pc' = "crash"
                   /\ m_tire_data' = tds
                   /\ UNCHANGED <<bodies, triangle_rigid, body_force, contacts, which,
                                  vert_data, trace>>
              ELSE /\ m_tire_data' = tds
                   /\ bodies' = bs
                   /\ triangle_rigid' = IF m_type = "RIGID" THEN triangle_rigid
                                        ELSE UpdateFaceShapes(triangle_rigid, td, junkState)
                   /\ vert_data' = <<>>
                   /\ IF last
                      THEN /\ body_force' \in ForceFields(bs, tds)
                           /\ contacts' = ProxyContacts(bs, tds)
                           /\ which' = 0
                           /\ pc' = "sync_send_idx"
                           /\ trace' = trace \o << <<"recv_tri", which>>, <<"update", which>>,
                                                   <<"evaluate", -1>> >>
                      ELSE /\ UNCHANGED <<body_force, contacts>>
                           /\ which' = NextTire(which)
                           /\ pc' = "sync_recv_vert"
                           /\ trace' = trace \o << <<"recv_tri", which>>, <<"update", which>> >>
    /\ UNCHANGED <<cfgVars, m_constructed, m_num_particles, m_particles_start_index,
                   m_proxy_start_index, ObA_rigid, box_like_rigid, m_init_height, chTime,
                   outbox, toVehicle, tire, faults, step_number, start_index, vert_forces,
                   calls, numInit, checkpoint>>

\* ------------------------------------------------------- force extraction
\* GetBodyContactForce
BodyContactForce(i) == IF i <= Len(body_force) THEN body_force[i] ELSE Zero3

\* ForcesNodeProxies: the loop from vertex iv (from 1) on; [idx, frc] are the
\* vectors vert_indices and vert_forces.
RECURSIVE NodeForcesFrom(_, _)
NodeForcesFrom(td, iv) ==
    IF iv > td.m_num_vert THEN [idx |-> <<>>, frc |-> <<>>]
    ELSE LET force == BodyContactForce(td.m_proxies[iv].body)
             rest == NodeForcesFrom(td, iv + 1)
         IN  IF ~IsZero(force)
             THEN [idx |-> <<td.m_proxies[iv].index>> \o rest.idx,
                   frc |-> force \o rest.frc]
             ELSE rest

\* Faulty variant of ForcesNodeProxies: every vertex is named, but only the
\* non-zero forces are stored.
ForcesNodeProxiesUnpaired(td) ==
    [idx |-> [iv \in 1 .. td.m_num_vert |-> td.m_proxies[iv].index],
     frc |-> NodeForcesFrom(td, 1).frc]

ForcesNodeProxies(td) == NodeForcesFrom(td, 1)

\* Faulty variant of MapAdd: the force replaces the value present at key.
MapOverwrite(map, key, force) ==
    [x \in (DOMAIN map) \cup {key} |-> IF x = key THEN force ELSE map[x]]

\* my_map with the force added at key: incremented if the key is present,
\* inserted otherwise.
MapAdd(map, key, force) ==
    IF key \in DOMAIN map THEN [map EXCEPT ![key] = VAdd(@, force)]
    ELSE [x \in (DOMAIN map) \cup {key} |-> IF x = key THEN force ELSE map[x]]

\* The first loop of ForcesFaceProxies from triangle it (from 1) on.
RECURSIVE FaceMapFrom(_, _, _)
FaceMapFrom(td, it, map) ==
    IF it > td.m_num_tri THEN map
    ELSE LET tri == td.m_triangles[it]
             rforce == BodyContactForce(td.m_proxies[it].body)
             force == VDiv(rforce, 3)
         IN  IF IsZero(rforce) THEN FaceMapFrom(td, it + 1, map)
             ELSE FaceMapFrom(td, it + 1,
                      MapAdd(MapAdd(MapAdd(map, tri[1], force), tri[2], force), tri[3], force))

FaceMap(td) == FaceMapFrom(td, 1, <<>>)

\* The orders in which an unordered_map with the given keys may be traversed.
Orders(keys) ==
    {o \in [1 .. Cardinality(keys) -> keys] :
        \A a \in DOMAIN o : \A b \in DOMAIN o : a # b => o[a] # o[b]}

RECURSIVE Flatten(_)
Flatten(vs) == IF vs = <<>> THEN <<>> ELSE Head(vs) \o Flatten(Tail(vs))

\* The second loop of ForcesFaceProxies, the map traversed in the given order.
ForcesFaceProxies(td, order) ==
    [idx |-> order, frc |-> Flatten([j \in DOMAIN order |-> FaceMap(td)[order[j]]])]

NoForces == [idx |-> <<>>, frc |-> <<>>]

\* Faulty variant of Collected: forces are collected in every step.
CollectedInEveryStep(td, order) ==
    IF m_type = "RIGID" THEN ForcesNodeProxies(td)
    ELSE ForcesFaceProxies(td, IF step_number > 0 THEN order ELSE <<>>)

\* What Synchronize collects for tire data td in the running step.
Collected(td, order) ==
    IF step_number > 0
    THEN IF m_type = "RIGID" THEN ForcesNodeProxies(td) ELSE ForcesFaceProxies(td, order)
    ELSE NoForces

CollectOrders(td) ==
    IF step_number > 0 /\ m_type = "GRANULAR" THEN Orders(DOMAIN FaceMap(td)) ELSE {<<>>}

\* MPI_Send(vert_indices.data(), num_vert, MPI_INT, TIRE_NODE_RANK(which), step_number, ...)
SyncSendIndices ==
    /\ pc = "sync_send_idx"
    /\ Len(outbox[TIRE_NODE_RANK(which)]) < MaxOut
    /\ \E order \in CollectOrders(m_tire_data[which]) :
          LET out == Collected(m_tire_data[which], order)
          IN  /\ vert_forces' = out.frc
              /\ outbox' = [outbox EXCEPT ![TIRE_NODE_RANK(which)] =
                               Append(@, Msg(step_number, "int", out.idx))]
    /\ pc' = "sync_send_frc"
    /\ trace' = Append(trace, <<"send_idx", which>>)
    /\ UNCHANGED <<cfgVars, sysVars, dynVars, chan, toVehicle, tire, faults, which,
                   step_number, start_index, vert_data, lastRecv, calls, numInit,
                   m_tire_data, checkpoint>>

\* MPI_Send(vert_forces.data(), 3 * num_vert, MPI_DOUBLE, TIRE_NODE_RANK(which), step_number, ...)
\* No code reads a contact force between the end of Synchronize and the next
\* evaluation: the model forgets the force field when Synchronize returns.
SyncSendForces ==
    /\ pc = "sync_send_frc"
    /\ Len(outbox[TIRE_NODE_RANK(which)]) < MaxOut
    /\ outbox' = [outbox EXCEPT ![TIRE_NODE_RANK(which)] = Append(@, Msg(step_number, "double", vert_forces))]
    /\ vert_forces' = <<>>
    /\ which' = NextTire(which)
    /\ pc' = IF MoreTires(NextTire(which)) THEN "sync_send_idx" ELSE "idle"
    /\ body_force' = IF MoreTires(NextTire(which)) THEN body_force ELSE NoForce(bodies)
    /\ trace' = Append(trace, <<"send_frc", which>>)
    /\ UNCHANGED <<cfgVars, sysVars, m_init_height, triangle_rigid, chTime, contacts, chan,
                   toVehicle, tire, faults, step_number, start_index, vert_data, lastRecv,
                   calls, numInit, m_tire_data, checkpoint>>

\* ---------------------------------------------------------- the tire nodes
\* A tire node follows the message protocol: the two handshake messages, then
\* for each step its vertex and connectivity messages before it waits for the
\* two answers of that step.  Its two sends in a row are one step of the model.
\* One message may deviate from the declared length by one element, at most
\* MaxFaults times in a run: fault names the message and the direction.
Deviate(data, d) ==
    IF d = 0 THEN data
    ELSE IF d < 0 THEN SubSeq(data, 1, Len(data) - 1)
    ELSE Append(data, 0)

Faults == {"none", "first_short", "first_long", "second_short", "second_long"}

Dev(fault, nth) ==
    IF fault = nth \o "_short" THEN -1 ELSE IF fault = nth \o "_long" THEN 1 ELSE 0

Possible(fault, first, second) ==
    /\ fault = "first_short" => Len(first) > 0
    /\ fault = "second_short" => Len(second) > 0

TireSendPair(i, tag, type1, data1, type2, data2, fault, stage) ==
    /\ Len(chan[i]) + 2 <= MaxChan
    /\ Possible(fault, data1, data2)
    /\ fault # "none" => faults < MaxFaults
    /\ faults' = IF fault # "none" THEN faults + 1 ELSE faults
    /\ chan' = [chan EXCEPT ![i] =
                  @ \o <<Msg(tag, type1, Deviate(data1, Dev(fault, "first"))),
                         Msg(tag, type2, Deviate(data2, Dev(fault, "second")))>>]
    /\ tire' = [tire EXCEPT ![i] = stage]
    /\ UNCHANGED <<cfgVars, sysVars, dynVars, outbox, toVehicle, ctlVars, histVars,
                   m_tire_data, checkpoint>>

\* The mesh sizes a tire may declare: <<vertices, triangles>>.
Declared == {<<1, 0>>, <<MaxVert, MaxTri>>}

MaterialProps == [k \in 1 .. NumMatProps |-> k]

\* tire[i] -> terrain: [vertex_count, triangle_count], then the 8 material floats.
TireHandshake(i, decl, fault) ==
    /\ tire[i].sent = "none"
    /\ TireSendPair(i, 0, "uint", decl, "float", MaterialProps, fault,
                    [tire[i] EXCEPT !.sent = "ready", !.nv = decl[1], !.nt = decl[2]])

\* Positions of all vertices, then velocities of all vertices; the values
\* differ from entry to entry, from step to step and from sample to sample.
VertexPayload(nv, step, c) ==
    [k \in 1 .. (2 * 3 * nv) |-> 3 * (100 * step + (IF c = "same" THEN 0 ELSE 30) + k)]

\* Connectivity samples: every triangle on the vertices 0,1,2; degenerate
\* triangles; a strip, whose later triangles name vertices the mesh may lack.
ConnSamples == {"same", "degenerate", "strip"}

Connectivity(nt, c) ==
    Flatten([it \in 1 .. nt |->
                IF c = "same" THEN <<0, 1, 2>>
                ELSE IF c = "degenerate" THEN <<it - 1, it - 1, 0>>
                ELSE <<it - 1, it, it + 1>>])

\* Per step N, tire[i] -> terrain: the vertex array, then the connectivity.
TireStep(i, c, fault) ==
    /\ tire[i].sent = "ready"
    /\ TireSendPair(i, tire[i].step, "double", VertexPayload(tire[i].nv, tire[i].step, c),
                    "int", Connectivity(tire[i].nt, c), fault,
                    [tire[i] EXCEPT !.sent = "wait"])

\* A fast tire: it queues the two messages of its next step before it has
\* taken the answers of the running one.
TireRunAhead(i, c) ==
    /\ tire[i].sent = "wait"
    /\ tire[i].step < MaxStep
    /\ TireSendPair(i, tire[i].step + 1, "double",
                    VertexPayload(tire[i].nv, tire[i].step + 1, c),
                    "int", Connectivity(tire[i].nt, c), "none",
                    [tire[i] EXCEPT !.sent = "ahead"])

\* A tire that sends its connectivity once: in a later step it sends the vertex
\* array alone and waits for the answers.
TireStepVertexOnly(i, c) ==
    /\ tire[i].sent = "ready"
    /\ tire[i].step > 0
    /\ Len(chan[i]) + 1 <= MaxChan
    /\ chan' = [chan EXCEPT ![i] =
                  Append(@, Msg(tire[i].step, "double",
                                VertexPayload(tire[i].nv, tire[i].step, c)))]
    /\ tire' = [tire EXCEPT ![i].sent = "waitv"]
    /\ UNCHANGED <<cfgVars, sysVars, dynVars, outbox, toVehicle, faults, ctlVars, histVars,
                   m_tire_data, checkpoint>>

\* The tire takes the index message and the force message of its step.
TireRecv(i) ==
    /\ tire[i].sent \in {"wait", "ahead"}
    /\ Len(outbox[i]) >= 2
    /\ outbox[i][1].tag = tire[i].step
    /\ outbox[i][2].tag = tire[i].step
    /\ outbox' = [outbox EXCEPT ![i] = SubSeq(@, 3, Len(@))]
    /\ tire' = [tire EXCEPT ![i] =
                  IF tire[i].sent = "ahead"
                  THEN [@ EXCEPT !.sent = "wait", !.step = @ + 1]
                  ELSE IF tire[i].step < MaxStep
                  THEN [@ EXCEPT !.sent = "ready", !.step = @ + 1]
                  ELSE [@ EXCEPT !.sent = "done"]]
    /\ UNCHANGED <<cfgVars, sysVars, dynVars, chan, toVehicle, faults, ctlVars, histVars,
                   m_tire_data, checkpoint>>

\* A tire node that starts over, for a terrain that is initialized again.
TireRestart(i) ==
    /\ tire[i].sent \in {"ready", "done"}
    /\ tire[i].runs < MaxInit
    /\ tire' = [tire EXCEPT ![i] = [NewTire EXCEPT !.runs = tire[i].runs + 1]]
    /\ UNCHANGED <<cfgVars, sysVars, dynVars, chan, outbox, toVehicle, faults, ctlVars,
                   histVars, m_tire_data, checkpoint>>

\* ------------------------------------------------------------ specification
JunkStates == {NoVertexState}

\* The operations of the terrain node that exchange no message.
Local ==
    \/ \E forType \in {"RIGID", "GRANULAR"} : \E fixed \in BOOLEAN :
          SetProxyProperties(forType, fixed)
    \/ \E npl \in 1 .. MaxPerLayer : DoConstruct(npl)
    \/ \E npl \in 1 .. MaxPerLayer : \E k \in 1 .. NumSamples :
          \E junk \in JunkCounts : \E junkId \in JunkIds : Settle(npl, k, junk, junkId)
    \/ \E step_size \in {0, MaxAdvance} : \E k \in 1 .. NumSamples :
          chTime + step_size <= MaxTime /\ Advance(step_size, k)

\* The handshake; fs are the length deviations the tires' messages may have.
Handshake(fs) ==
    \/ \E npl \in 1 .. MaxPerLayer : InitializeBegin(npl)
    \/ \E junk \in JunkCounts : InitRecvProps(junk)
    \/ \E junk \in JunkVals : InitRecvMat(junk)
    \/ \E i \in Tires : \E decl \in Declared : \E fault \in fs :
          TireHandshake(i, decl, fault)

Stepping(fs) ==
    \/ \E step \in 0 .. MaxStep : SynchronizeBegin(step)
    \/ \E junk \in JunkVals : SyncRecvVert(junk)
    \/ \E junk \in JunkCounts : \E junkState \in JunkStates : \E crash \in BOOLEAN :
          SyncRecvTri(junk, junkState, crash)
    \/ SyncSendIndices
    \/ SyncSendForces
    \/ \E i \in Tires : \E c \in ConnSamples : \E fault \in fs : TireStep(i, c, fault)
    \/ \E i \in Tires : TireRecv(i)

\* The co-simulation: a run that neither reads nor writes a checkpoint.
Next == Local \/ Handshake({"none"}) \/ Stepping({"none"})

\* The runs below use the micro-step StepSize.
InitStep == Init /\ m_step_size = StepSize

InitRun == InitStep /\ ~m_use_checkpoint /\ checkpoint = NoFile

Spec == InitRun /\ [][Next]_vars

\* Construction, settling and checkpointing of the terrain, with the handshake
\* that adds the proxies.
NextCheckpoint ==
    \/ \E layers \in 0 .. MaxLayers : SetGranularMaterial(2 * DefaultRadiusG, layers)
    \/ SetPlatformLength(PlatformLength)
    \/ WriteCheckpoint
    \/ Local
    \/ Handshake({"none"})

SpecCheckpoint == InitStep /\ [][NextCheckpoint]_vars

\* Repeated initialization: tire nodes that start over and shake hands again.
NextRestart ==
    \/ Local
    \/ Handshake({"none"})
    \/ \E i \in Tires : TireRestart(i)

SpecRestart == InitRun /\ [][NextRestart]_vars

\* The message exchange with tires whose messages may deviate in length.
NextFaulty == Handshake(Faults) \/ Stepping(Faults)

SpecFaulty == InitRun /\ [][NextFaulty]_vars

\* The message exchange with tires that run ahead of the terrain or send their
\* connectivity only once; their meshes are the two samples EagerSamples.
EagerSamples == {"same", "strip"}

NextEager ==
    \/ Handshake({"none"})
    \/ \E step \in 0 .. MaxStep : SynchronizeBegin(step)
    \/ \E junk \in JunkVals : SyncRecvVert(junk)
    \/ \E junk \in JunkCounts : \E junkState \in JunkStates : \E crash \in BOOLEAN :
          SyncRecvTri(junk, junkState, crash)
    \/ SyncSendIndices
    \/ SyncSendForces
    \/ \E i \in Tires : \E c \in EagerSamples : TireStep(i, c, "none")
    \/ \E i \in Tires : \E c \in EagerSamples : TireRunAhead(i, c)
    \/ \E i \in Tires : \E c \in EagerSamples : TireStepVertexOnly(i, c)
    \/ \E i \in Tires : TireRecv(i)

\* No operation of the exchange has an assertion: one build is followed.
InitEager == InitRun /\ asserts

SpecEager == InitEager /\ [][NextEager]_vars

\* The operations without messages, Advance with macro steps of several
\* micro-steps and a micro-step that is no power of two; one build is followed.
NextAdvance ==
    \/ \E forType \in {"RIGID", "GRANULAR"} : \E fixed \in BOOLEAN :
          SetProxyProperties(forType, fixed)
    \/ \E npl \in 1 .. MaxPerLayer : DoConstruct(npl)
    \/ \E npl \in 1 .. MaxPerLayer : \E k \in 1 .. NumSamples :
          \E junk \in JunkCounts : \E junkId \in JunkIds : Settle(npl, k, junk, junkId)
    \/ \E step_size \in {0, MaxAdvance, LongAdvance} : \E k \in 1 .. NumSamples :
          Advance(step_size, k)

InitAdvance == Init /\ ~m_use_checkpoint /\ checkpoint = NoFile /\ asserts

SpecAdvance == InitAdvance /\ [][NextAdvance]_vars

\* The exchange as the processes run it: the terrain's program calls Initialize
\* once and then Synchronize(0), Synchronize(1), ... in order; every tire sends
\* its handshake and then, step by step, the vertex array and the connectivity
\* of a mesh whose triangles name vertices of the tire, and takes its answers.
MeshOk(nv, nt, c) == \A k \in 1 .. 3 * nt : Connectivity(nt, c)[k] \in 0 .. nv - 1

TerrainProc ==
    \/ \E npl \in 1 .. MaxPerLayer : numInit = 0 /\ InitializeBegin(npl)
    \/ \E junk \in JunkCounts : InitRecvProps(junk)
    \/ \E junk \in JunkVals : InitRecvMat(junk)
    \/ \E step \in 0 .. MaxStep :
          numInit > 0 /\ step = calls - 1 /\ SynchronizeBegin(step)
    \/ \E junk \in JunkVals : SyncRecvVert(junk)
    \/ \E junk \in JunkCounts : \E junkState \in JunkStates : \E crash \in BOOLEAN :
          SyncRecvTri(junk, junkState, crash)
    \/ SyncSendIndices
    \/ SyncSendForces

TireProc(i) ==
    \/ \E decl \in Declared : TireHandshake(i, decl, "none")
    \/ \E c \in ConnSamples : MeshOk(tire[i].nv, tire[i].nt, c) /\ TireStep(i, c, "none")
    \/ TireRecv(i)

NextLive == TerrainProc \/ \E i \in Tires : TireProc(i)

\* Every process is scheduled again and again: a process that can take a step
\* takes one; a blocking receive returns once its message has arrived.
Fairness == WF_vars(TerrainProc) /\ \A i \in Tires : WF_vars(TireProc(i))

SpecLive == InitEager /\ [][NextLive]_vars /\ Fairness

\* ================================================================ properties
\* Initialize has returned at least once and no Initialize is running.
Initialized ==
    /\ numInit > 0
    /\ pc \in {"idle", "sync_recv_vert", "sync_recv_tri", "sync_send_idx", "sync_send_frc"}

InInitialize == pc \in {"init_recv_props", "init_recv_mat"}

\* A step of the driver calling Settle.
SettleCall ==
    \E npl \in 1 .. MaxPerLayer : \E k \in 1 .. NumSamples :
        \E junk \in JunkCounts : \E junkId \in JunkIds : Settle(npl, k, junk, junkId)

StateOf(b) == [pos |-> b.pos, rot |-> b.rot, pos_dt |-> b.pos_dt, rot_dt |-> b.rot_dt]

\* ------------------------------------------------------------------------ C1
\* C1: after Initialize has registered the tires, start_vert and start_tri of
\* tire 0 are 0 and, for every tire i but the last, the start offsets of tire
\* i+1 are those of tire i plus the vertex and triangle counts of tire i.
C1_ContiguousOffsets ==
    Initialized =>
        /\ m_tire_data[0].m_start_vert = 0
        /\ m_tire_data[0].m_start_tri = 0
        /\ \A i \in 0 .. (NumTires - 2) :
              /\ m_tire_data[i + 1].m_start_vert =
                     m_tire_data[i].m_start_vert + m_tire_data[i].m_num_vert
              /\ m_tire_data[i + 1].m_start_tri =
                     m_tire_data[i].m_start_tri + m_tire_data[i].m_num_tri

\* Initialize has returned twice, the last time for a first tire of MaxVert
\* vertices and MaxTri triangles, so that the offsets of the second tire are
\* two different non-zero numbers.
C1_Witness ==
    /\ pc = "idle"
    /\ numInit = MaxInit
    /\ Len(trace) = 3 * NumTires
    /\ m_tire_data[0].m_num_vert = MaxVert
    /\ m_tire_data[0].m_num_tri = MaxTri
    /\ m_tire_data[1].m_start_vert = MaxVert
    /\ m_tire_data[1].m_start_tri = MaxTri

\* ------------------------------------------------------------------------ C2
\* C2: every message Synchronize sends to a tire with step number 0, the index
\* message and the force message alike, is empty, and so is the force vector
\* held between the two sends, whatever forces the bodies carry.
C2_NothingSentAtStepZero ==
    /\ \A i \in Tires : \A k \in 1 .. Len(outbox[i]) :
          outbox[i][k].tag = 0 => outbox[i][k].data = <<>>
    /\ (pc = "sync_send_frc" /\ step_number = 0) => vert_forces = <<>>

\* Step 0, between the two sends to a tire one of whose proxies carries a
\* non-zero contact force.
C2_Witness ==
    /\ pc = "sync_send_frc"
    /\ step_number = 0
    /\ Len(outbox[which]) > 0
    /\ \E e \in Range(m_tire_data[which].m_proxies) : ~IsZero(body_force[e.body])

\* ------------------------------------------------------------------------ C3
RECURSIVE VSum(_)
VSum(vs) == IF vs = <<>> THEN Zero3 ELSE VAdd(Head(vs), VSum(Tail(vs)))

\* The contribution of corner c of triangle it of tire data td to vertex v:
\* a third of the force on the triangle's proxy if the corner names v.
Contribution(td, it, c, v) ==
    IF td.m_triangles[it][c] = v THEN VDiv(body_force[td.m_proxies[it].body], 3) ELSE Zero3

\* The sum over all corners of all triangles of the contributions to vertex v.
VertexTotal(td, v) ==
    VSum([n \in 1 .. (3 * td.m_num_tri) |->
             Contribution(td, ((n - 1) \div 3) + 1, ((n - 1) % 3) + 1, v)])

\* The vertices named by a triangle whose proxy carries a non-zero force.
LoadedVertices(td) ==
    {td.m_triangles[it][c] : it \in {t \in 1 .. td.m_num_tri :
                                        ~IsZero(body_force[td.m_proxies[t].body])},
                             c \in 1 .. 3}

\* The index message just sent to tire `which`.
SentIndices == outbox[which][Len(outbox[which])].data

\* C3: on granular terrain, in a step after step 0, the vertices sent to a tire
\* are exactly the vertices of its force-carrying triangles, each once, and the
\* force sent for a vertex is the sum of the contributions F/3 of every corner
\* of every force-carrying triangle that names the vertex.
C3_FaceForceDistribution ==
    (pc = "sync_send_frc" /\ m_type = "GRANULAR" /\ step_number > 0) =>
        LET td == m_tire_data[which]
            idx == SentIndices
        IN  /\ Len(vert_forces) = 3 * Len(idx)
            /\ Len(idx) = Cardinality(LoadedVertices(td))
            /\ {idx[j] : j \in 1 .. Len(idx)} = LoadedVertices(td)
            /\ \A j \in 1 .. Len(idx) :
                  <<vert_forces[3 * j - 2], vert_forces[3 * j - 1], vert_forces[3 * j]>>
                      = VertexTotal(td, idx[j])

\* Two triangles of one tire carry different non-zero forces and share a vertex.
C3_Witness ==
    /\ pc = "sync_send_frc"
    /\ m_type = "GRANULAR"
    /\ step_number > 0
    /\ LET td == m_tire_data[which]
       IN  /\ td.m_num_tri = 2
           /\ ~IsZero(body_force[td.m_proxies[1].body])
           /\ ~IsZero(body_force[td.m_proxies[2].body])
           /\ \E c \in 1 .. 3 : \E d \in 1 .. 3 : td.m_triangles[1][c] = td.m_triangles[2][d]

\* ------------------------------------------------------------------------ C4
\* C4: in every state after Initialize, a repeated Initialize included, the
\* proxy list of each tire has one entry per vertex (rigid terrain) or per
\* triangle (granular terrain), and entry j is the proxy of element j: its
\* index is j and its body has the identifier of element j.
C4_OneProxyPerElement ==
    Initialized =>
        \A i \in Tires :
            LET td == m_tire_data[i]
                n == IF m_type = "RIGID" THEN td.m_num_vert ELSE td.m_num_tri
                start == IF m_type = "RIGID" THEN td.m_start_vert ELSE td.m_start_tri
            IN  /\ Len(td.m_proxies) = n
                /\ \A j \in 1 .. Len(td.m_proxies) :
                      /\ td.m_proxies[j].index = j - 1
                      /\ bodies[td.m_proxies[j].body].id = start + (j - 1)

\* ------------------------------------------------------------------------ C5
\* C5: every proxy body is in the family ProxyFamily and masks that family, and
\* no contact is reported between two proxy bodies of one tire.
C5_ProxyFamilyIsolation ==
    /\ \A i \in 1 .. Len(bodies) :
          bodies[i].kind = "proxy" =>
              (bodies[i].family = ProxyFamily /\ bodies[i].family \in bodies[i].nomask)
    /\ \A t \in Tires : \A pr \in contacts : ~(pr \subseteq ProxiesOf(m_tire_data[t]))

\* The contacts have just been evaluated with two colliding, free proxies of
\* one tire at the same position.
C5_Witness ==
    /\ pc = "sync_send_idx"
    /\ which = 0
    /\ \E t \in Tires : \E a \in ProxiesOf(m_tire_data[t]) : \E b \in ProxiesOf(m_tire_data[t]) :
          /\ a # b
          /\ bodies[a].pos = bodies[b].pos
          /\ bodies[a].pos # Zero3
          /\ bodies[a].collide /\ bodies[b].collide
          /\ ~bodies[a].fixed /\ ~bodies[b].fixed

\* ------------------------------------------------------------------------ C6
\* C6: a Settle that reads a checkpoint file whose particle count differs from
\* the number of particles of the run ends in the abort of the run with the
\* inconsistency reported, and every body then has the state in which
\* construction left it: no state of the file has been written to a body.
C6_AbortBeforeRestore ==
    [][(/\ SettleCall
        /\ ~(asserts /\ m_type # "GRANULAR")
        /\ m_use_checkpoint
        /\ checkpoint.exists
        /\ checkpoint.count # m_num_particles')
       => (/\ pc' = "abort_checkpoint"
           /\ \A i \in 1 .. Len(bodies') :
                 IF i <= Len(bodies) THEN bodies'[i] = bodies[i]
                 ELSE /\ StateOf(bodies'[i]) = [StateOf(NewBody) EXCEPT !.pos = bodies'[i].pos]
                      /\ \A j \in 1 .. Len(checkpoint.recs) :
                            bodies'[i].pos # StateOfRecord(checkpoint.recs[j]).pos)]_vars

\* The run has been aborted for a file of one particle read into a terrain of
\* DefaultNumLayers particles.
C6_Witness ==
    /\ pc = "abort_checkpoint"
    /\ checkpoint.exists
    /\ Len(checkpoint.recs) > 0
    /\ m_num_particles > Len(checkpoint.recs)

\* ------------------------------------------------------------------------ C7
\* The state of a body as a stream with the default precision writes it.
Written(b) ==
    [pos |-> FmtSeq(b.pos), rot |-> FmtSeq(b.rot),
     pos_dt |-> FmtSeq(b.pos_dt), rot_dt |-> FmtSeq(b.rot_dt)]

\* A Settle that reads, and reads to the end, the file WriteCheckpoint has
\* just written from the bodies as they are.
RoundTrip ==
    /\ SettleCall
    /\ m_use_checkpoint
    /\ m_constructed
    /\ checkpoint = CheckpointOf(bodies)
    /\ pc' = "idle"

\* C7 as stated: after the round trip every granular body has the position,
\* orientation, linear velocity and quaternion rate it had when the file was
\* written.
C7_RoundTripExact ==
    [][RoundTrip =>
         \A i \in 1 .. Len(bodies) :
            IsGranularBody(bodies[i]) => StateOf(bodies'[i]) = StateOf(bodies[i])]_vars

\* C7, amended: after the round trip every granular body has the position,
\* orientation, linear velocity and quaternion rate it had when the file was
\* written, each component rounded to Precision significant digits; a
\* component of no more than Precision digits is restored unchanged.
C7_RoundTripRounded ==
    [][RoundTrip =>
         \A i \in 1 .. Len(bodies) :
            IsGranularBody(bodies[i]) =>
                /\ StateOf(bodies'[i]) = Written(bodies[i])
                /\ \A c \in 1 .. 3 :
                      NumDigits(Abs(bodies[i].pos[c])) <= Precision
                          => bodies'[i].pos[c] = bodies[i].pos[c]]_vars

\* A granular body holds what the file holds for it, the file is the one
\* written from the bodies, and the outcome of the dynamics run for that body
\* had a component of more than Precision digits.
C7_Witness ==
    /\ pc = "idle"
    /\ m_use_checkpoint
    /\ calls = MaxCalls
    /\ checkpoint.exists
    /\ checkpoint.time > 0
    /\ \E i \in 1 .. Len(bodies) :
          /\ IsGranularBody(bodies[i])
          /\ StateOf(bodies[i]) = Written(SetState(bodies[i], Sample(1, i)))
          /\ StateOf(bodies[i]) # Sample(1, i)
          /\ checkpoint.recs[i - m_particles_start_index] = Line(bodies[i])

\* ------------------------------------------------------------------------ C8
\* C8: once the terrain is constructed, no operation the driver calls
\* (Construct itself, Settle and Initialize, which call Construct, and any
\* other) adds a body or a contact shape or changes a cached start index or
\* the particle count, and a direct call of Construct changes nothing at all.
C8_ConstructIdempotent ==
    [][(m_constructed /\ calls' # calls) =>
          /\ m_constructed'
          /\ Len(bodies') = Len(bodies)
          /\ \A i \in 1 .. Len(bodies) : bodies'[i].id = bodies[i].id
          /\ Len(ObA_rigid') = Len(ObA_rigid)
          /\ Len(box_like_rigid') = Len(box_like_rigid)
          /\ Len(triangle_rigid') = Len(triangle_rigid)
          /\ m_particles_start_index' = m_particles_start_index
          /\ m_proxy_start_index' = m_proxy_start_index
          /\ m_num_particles' = m_num_particles
          /\ \A i \in Tires : m_tire_data'[i].m_proxies = m_tire_data[i].m_proxies
          /\ (\E npl \in 1 .. MaxPerLayer : DoConstruct(npl)) =>
                 (bodies' = bodies /\ ObA_rigid' = ObA_rigid
                                   /\ box_like_rigid' = box_like_rigid)]_vars

\* Settle and two calls of Initialize have entered Construct, and the terrain
\* has the five boxes of the container once.
C8_Witness ==
    /\ m_constructed
    /\ numInit = MaxInit
    /\ m_init_height > 0
    /\ pc = "idle"
    /\ Len(box_like_rigid) = 5

\* ------------------------------------------------------------------------ C9
\* C9: when a per-step vertex or connectivity message delivers a number of
\* elements that differs from the number the tire's declared counts call for,
\* the terrain aborts the run.
C9_MismatchIsFatal ==
    (lastRecv.what \in {"vert", "tri"} /\ lastRecv.got # lastRecv.want) => pc = "abort_mpi"

\* ----------------------------------------------------------------------- C10
\* The events of an Initialize that registers every tire: for tire 0, then
\* tire 1, ..., the count message, the material message, the proxies.
ExpectedInit ==
    Flatten([n \in 1 .. NumTires |->
                << <<"recv_props", n - 1>>, <<"recv_mat", n - 1>>, <<"proxies", n - 1>> >>])

\* C10: while Initialize runs, the events so far are the beginning of
\* ExpectedInit up to the tire being registered, the handshake messages of
\* every later tire that has sent them are still the first two of its channel,
\* and an Initialize that returns has gone through all of ExpectedInit.
C10_RegistrationInOrder ==
    /\ InInitialize =>
          /\ Len(trace) = 3 * which + (IF pc = "init_recv_mat" THEN 1 ELSE 0)
          /\ Len(trace) <= Len(ExpectedInit)
          /\ trace = SubSeq(ExpectedInit, 1, Len(trace))
          /\ numInit = 1 =>
                \A j \in Tires :
                    (j > which /\ tire[j].sent # "none") =>
                        /\ Len(chan[j]) >= 2
                        /\ chan[j][1] = Msg(0, "uint", <<tire[j].nv, tire[j].nt>>)
                        /\ chan[j][2] = Msg(0, "float", MaterialProps)
    /\ (pc = "idle" /\ trace # <<>> /\ trace[1][1] = "recv_props") => trace = ExpectedInit

\* Tire 1 has sent its handshake and its step-0 messages, and the terrain is in
\* the middle of registering tire 0.
C10_Witness ==
    /\ pc = "init_recv_mat"
    /\ which = 0
    /\ numInit = 1
    /\ Len(chan[1]) = MaxChan

\* ------------------------------------------------------------------- C11
InSynchronize == pc \in {"sync_recv_vert", "sync_recv_tri", "sync_send_idx", "sync_send_frc"}

\* The events of one Synchronize: for every tire in turn its two receives and
\* the update of its proxies, then the evaluation of the contact forces, then
\* for every tire in turn its two sends.
ExpectedSync ==
    Flatten([n \in 1 .. NumTires |->
                << <<"recv_vert", n - 1>>, <<"recv_tri", n - 1>>, <<"update", n - 1>> >>])
    \o << <<"evaluate", -1>> >>
    \o Flatten([n \in 1 .. NumTires |-> << <<"send_idx", n - 1>>, <<"send_frc", n - 1>> >>])

\* Number of events behind a Synchronize that stands at pc with tire `which`.
SyncProgress ==
    IF pc = "sync_recv_vert" THEN 3 * which
    ELSE IF pc = "sync_recv_tri" THEN 3 * which + 1
    ELSE IF pc = "sync_send_idx" THEN 3 * NumTires + 1 + 2 * which
    ELSE 3 * NumTires + 1 + 2 * which + 1

\* C11: while Synchronize runs, its events so far are the beginning of
\* ExpectedSync up to the place it stands at, so the evaluation comes after the
\* receives and the update of every tire and before the first send to any tire;
\* a Synchronize that returns has gone through all of ExpectedSync.
C11_BarrierOrder ==
    /\ InSynchronize =>
          /\ Len(trace) = SyncProgress
          /\ Len(trace) <= Len(ExpectedSync)
          /\ trace = SubSeq(ExpectedSync, 1, Len(trace))
    /\ (pc = "idle" /\ trace # <<>> /\ trace[1][1] = "recv_vert") => trace = ExpectedSync

\* The terrain is about to send the forces of the last tire in step 1.
C11_Witness ==
    /\ pc = "sync_send_frc"
    /\ which = NumTires - 1
    /\ step_number = 1
    /\ Len(trace) = Len(ExpectedSync) - 1

\* ------------------------------------------------------------------- C12
\* The tires whose proxies the running Synchronize has updated.
UpdatedTires ==
    IF pc \in {"sync_recv_vert", "sync_recv_tri"} THEN 0 .. (which - 1)
    ELSE IF pc \in {"sync_send_idx", "sync_send_frc"} THEN Tires
    ELSE {}

\* Tire data td holds what tire i sends for the given step with sample c.
HoldsStepData(td, i, step, c) ==
    LET sent == Unpacked(td, VertexPayload(tire[i].nv, step, c), Connectivity(tire[i].nt, c))
    IN  /\ td.m_vertex_states = sent.m_vertex_states
        /\ td.m_triangles = sent.m_triangles

\* C12: in a Synchronize(N) that follows Initialize, the vertex states and the
\* triangles of every tire updated so far are those of the two messages the tire
\* sends for step N, and the node proxies of the tire stand where these vertex
\* states put them, whatever else the tire has queued.
C12_StepDataApplied ==
    Initialized =>
        \A i \in UpdatedTires :
            /\ m_tire_data[i].m_num_vert = tire[i].nv
            /\ m_tire_data[i].m_num_tri = tire[i].nt
            /\ \E c \in ConnSamples : HoldsStepData(m_tire_data[i], i, step_number, c)
            /\ m_type = "RIGID" =>
                  \A iv \in 1 .. m_tire_data[i].m_num_vert :
                      /\ bodies[m_tire_data[i].m_proxies[iv].body].pos
                            = m_tire_data[i].m_vertex_states[iv].pos
                      /\ bodies[m_tire_data[i].m_proxies[iv].body].pos_dt
                            = m_tire_data[i].m_vertex_states[iv].vel

\* Synchronize(1) has updated tire 0 with its step-1 data while the step-0
\* messages of that tire, sent earlier, are still queued.
C12_Witness ==
    /\ Initialized
    /\ pc = "sync_recv_vert"
    /\ which = 1
    /\ step_number = 1
    /\ tire[0].nv = MaxVert
    /\ \E k \in 1 .. Len(chan[0]) : chan[0][k].tag = 0
    /\ \E c \in ConnSamples : HoldsStepData(m_tire_data[0], 0, 1, c)

\* ------------------------------------------------------------------- C13
\* Sum of f[j] over the tires j < i.
RECURSIVE SumBelow(_, _)
SumBelow(f, i) == IF i = 0 THEN 0 ELSE f[i - 1] + SumBelow(f, i - 1)

\* What the terrain holds for tire i as a function of what the tires have
\* sent, the tire's own mesh sample c being the only thing left open.
TireDataOf(i, step, c) ==
    LET sent == VertexPayload(tire[i].nv, step, c) IN
    [m_num_vert |-> tire[i].nv,
     m_num_tri |-> tire[i].nt,
     m_start_vert |-> SumBelow([j \in Tires |-> tire[j].nv], i),
     m_start_tri |-> SumBelow([j \in Tires |-> tire[j].nt], i),
     m_vertex_states |->
        [iv \in 1 .. tire[i].nv |->
            [pos |-> [d \in 1 .. 3 |-> sent[3 * (iv - 1) + d]],
             vel |-> [d \in 1 .. 3 |-> sent[3 * tire[i].nv + 3 * (iv - 1) + d]]]],
     m_material_tire |-> MaterialProps]

\* C13: whatever the order in which the messages of different tires arrive,
\* after Initialize the counts, start offsets and material of every tire are
\* those given by the tires' own handshakes (the offsets by the handshakes of
\* the tires before it), and what Synchronize(N) has stored for a tire and
\* written to its node proxies is that tire's own step-N vertex array; every
\* message queued for a tire carries the tag of a step that tire has reached.
C13_ArrivalOrderIrrelevant ==
    Initialized =>
        \A i \in Tires :
            /\ \A f \in {"m_num_vert", "m_num_tri", "m_start_vert", "m_start_tri",
                         "m_material_tire"} :
                  m_tire_data[i][f] = TireDataOf(i, step_number, "same")[f]
            /\ i \in UpdatedTires =>
                  /\ \E c \in ConnSamples :
                        m_tire_data[i].m_vertex_states = TireDataOf(i, step_number, c).m_vertex_states
                  /\ m_type = "RIGID" =>
                        \A iv \in 1 .. tire[i].nv :
                            \E c \in ConnSamples :
                                StateOf(bodies[m_tire_data[i].m_proxies[iv].body]) =
                                    [pos |-> TireDataOf(i, step_number, c).m_vertex_states[iv].pos,
                                     rot |-> QUnit,
                                     pos_dt |-> TireDataOf(i, step_number, c).m_vertex_states[iv].vel,
                                     rot_dt |-> QZero]
            /\ \A k \in 1 .. Len(outbox[i]) : outbox[i][k].tag <= tire[i].step

\* Synchronize(1) waits for the vertex array of tire 0 while both messages of
\* tire 1, whose mesh differs from that of tire 0, have arrived.
C13_Witness ==
    /\ Initialized
    /\ pc = "sync_recv_vert"
    /\ which = 0
    /\ step_number = 1
    /\ chan[0] = <<>>
    /\ Len(chan[1]) = 2
    /\ chan[1][1].tag = 1
    /\ tire[0].nv # tire[1].nv

\* ------------------------------------------------------------------- C14
\* The force sent with the j-th index of the message being sent.
SentForce(j) == <<vert_forces[3 * j - 2], vert_forces[3 * j - 1], vert_forces[3 * j]>>

\* The force on element e of tire data td in the running step: on rigid terrain
\* the contact force of the node proxy of vertex e, on granular terrain the sum
\* of the contributions of the triangles to vertex e.
ElementForce(td, e) ==
    IF m_type = "RIGID"
    THEN (IF e + 1 \in 1 .. td.m_num_vert THEN body_force[td.m_proxies[e + 1].body] ELSE Zero3)
    ELSE VertexTotal(td, e)

\* C14: between the index message and the force message of a tire, every index
\* sent is paired with a non-zero force, and no element whose force in the step
\* is zero is among the indices sent.
C14_OnlyNonZeroForces ==
    pc = "sync_send_frc" =>
        LET td == m_tire_data[which]
            idx == SentIndices
        IN  /\ Len(vert_forces) = 3 * Len(idx)
            /\ \A j \in 1 .. Len(idx) :
                  /\ ~IsZero(SentForce(j))
                  /\ ~IsZero(ElementForce(td, idx[j]))

\* ------------------------------------------------------------------- C15
LastOf(q) == q[Len(q)]

\* C15: a message for a tire is queued only by the two sends of Synchronize,
\* one at a time and for the tire being served; the first send queues an integer
\* message of k indices tagged N and leaves 3k scalars to send, entries
\* 3j-2 .. 3j of which are the force of the element named by the j-th index;
\* the second send queues these 3k scalars tagged N and moves on to the next tire.
C15_IndexThenForceMessage ==
    [][/\ \A i \in Tires :
             Len(outbox'[i]) > Len(outbox[i]) =>
                 /\ i = TIRE_NODE_RANK(which)
                 /\ pc \in {"sync_send_idx", "sync_send_frc"}
                 /\ pc' # pc
                 /\ outbox'[i] = Append(outbox[i], LastOf(outbox'[i]))
       /\ (pc = "sync_send_idx" /\ pc' # pc) =>
             LET m == LastOf(outbox'[which])
             IN  /\ pc' = "sync_send_frc"
                 /\ which' = which
                 /\ Len(outbox'[which]) = Len(outbox[which]) + 1
                 /\ m.tag = step_number
                 /\ m.type = "int"
                 /\ Len(vert_forces') = 3 * Len(m.data)
                 /\ \A j \in 1 .. Len(m.data) :
                       <<vert_forces'[3 * j - 2], vert_forces'[3 * j - 1], vert_forces'[3 * j]>>
                           = ElementForce(m_tire_data[which], m.data[j])
       /\ (pc = "sync_send_frc" /\ pc' # pc) =>
             /\ outbox'[which] = Append(outbox[which], Msg(step_number, "double", vert_forces))
             /\ LastOf(outbox[which]).type = "int"
             /\ LastOf(outbox[which]).tag = step_number
             /\ Len(vert_forces) = 3 * Len(LastOf(outbox[which]).data)
             /\ which' = which + 1
             /\ pc' \in {"sync_send_idx", "idle"}
      ]_vars

\* Synchronize(1) has sent tire 0 two indices and their six force components
\* and is about to serve tire 1.
C15_Witness ==
    /\ pc = "sync_send_idx"
    /\ which = 1
    /\ step_number = 1
    /\ Len(outbox[0]) = 2
    /\ outbox[0][1].type = "int"
    /\ Len(outbox[0][1].data) = 2
    /\ outbox[0][2] = Msg(1, "double", outbox[0][2].data)
    /\ Len(outbox[0][2].data) = 6
    /\ \E d \in 1 .. 6 : outbox[0][2].data[d] # 0

\* ------------------------------------------------------------------- C16
\* The bodies of the system that are proxies.
ProxyBodies == {b \in 1 .. Len(bodies) : bodies[b].kind = "proxy"}

\* C16: after Initialize, the body of every proxy entry of tire i has the
\* identifier start_vert[i] (rigid terrain) or start_tri[i] (granular terrain)
\* plus the index of the entry's mesh element, and no two proxy bodies of the
\* system have the same identifier.
C16_ProxyIdentifiers ==
    Initialized =>
        /\ \A i \in Tires :
              LET td == m_tire_data[i]
                  start == IF m_type = "RIGID" THEN td.m_start_vert ELSE td.m_start_tri
              IN  \A j \in 1 .. Len(td.m_proxies) :
                      bodies[td.m_proxies[j].body].id = start + td.m_proxies[j].index
        /\ \A a \in ProxyBodies : \A b \in ProxyBodies :
              a # b => bodies[a].id # bodies[b].id

\* ------------------------------------------------------------------- C17
\* A step of the driver calling an operation meant for the other terrain type.
WrongTypeCall ==
    \/ /\ m_type = "RIGID"
       /\ \/ \E layers \in 0 .. MaxLayers : SetGranularMaterial(2 * DefaultRadiusG, layers)
          \/ \E fixed \in BOOLEAN : SetProxyProperties("GRANULAR", fixed)
          \/ SettleCall
    \/ /\ m_type = "GRANULAR"
       /\ \E fixed \in BOOLEAN : SetProxyProperties("RIGID", fixed)

\* C17: a call of an operation meant for the other terrain type ends in a
\* failed assertion and changes neither the particle radius, nor the number of
\* layers, nor the fixed-proxy flag.
C17_WrongTypeRejected ==
    [][WrongTypeCall =>
          /\ pc' = "abort_assert"
          /\ UNCHANGED <<m_radius_g, m_num_layers, m_fixed_proxies>>]_vars

TakesMessage(i, tag, type, n) ==
    \E k \in 1 .. Len(chan[i]) :
        /\ chan[i][k].tag = tag
        /\ \A o \in 1 .. (k - 1) : chan[i][o].tag # tag
        /\ chan[i][k].type = type
        /\ Len(chan[i][k].data) = n
        /\ chan' = [chan EXCEPT ![i] = RemoveAt(chan[i], k)]

\* C19: in a Synchronize(N) that follows Initialize, the step that leaves the
\* first receive for tire `which` takes one message of 2*3*vertex_count doubles
\* tagged N from that tire and goes to the second receive for the same tire; the
\* step that leaves the second receive takes one message of 3*triangle_count
\* integers tagged N from that tire and goes to the next tire or, after the last
\* tire, to the sends; the counts are those the tire declared in its handshake.
C19_TwoMessagesPerTire ==
    [][(Initialized /\ pc' # pc) =>
          /\ pc = "sync_recv_vert" =>
                /\ TakesMessage(which, step_number, "double", 2 * 3 * tire[which].nv)
                /\ m_tire_data[which].m_num_vert = tire[which].nv
                /\ pc' = "sync_recv_tri"
                /\ which' = which
          /\ pc = "sync_recv_tri" =>
                /\ TakesMessage(which, step_number, "int", 3 * tire[which].nt)
                /\ m_tire_data[which].m_num_tri = tire[which].nt
                /\ \/ pc' = "sync_recv_vert" /\ which' = which + 1 /\ which' < NumTires
                   \/ pc' = "sync_send_idx" /\ which = NumTires - 1
                   \/ pc' = "crash"
      ]_vars

\* Synchronize(1) has taken both messages of tire 0, whose mesh has MaxVert
\* vertices and MaxTri triangles, and stands at the first receive for tire 1.
C19_Witness ==
    /\ Initialized
    /\ pc = "sync_recv_vert"
    /\ which = 1
    /\ step_number = 1
    /\ tire[0].nv = MaxVert
    /\ tire[0].nt = MaxTri
    /\ lastRecv = [src |-> 0, tag |-> 1, got |-> 3 * MaxTri, want |-> 3 * MaxTri, what |-> "tri"]

\* ------------------------------------------------------------------- C20
\* Synchronize waits for the connectivity of a tire that, in this step, has sent
\* its vertex array alone and waits for its forces.
WaitsForConnectivity ==
    /\ pc = "sync_recv_tri"
    /\ tire[which].sent = "waitv"
    /\ tire[which].step = step_number
    /\ \A k \in 1 .. Len(chan[which]) : chan[which][k].tag # step_number

\* C20 as stated: a step in which a tire sends its vertex array but no
\* connectivity goes on with the connectivity held for the tire, so Synchronize
\* is never found waiting for the connectivity of such a tire.
C20_VertexOnlyStepCompletes == ~WaitsForConnectivity

\* C20: connectivity has to be sent in every step.  Synchronize leaves its
\* connectivity receive, changes what it holds for a tire, moves a body or
\* queues a message for a tire only by taking from the tire's channel the oldest
\* message tagged N; until such a message is there it stays in the receive.
C20_ConnectivityEveryStep ==
    [][(/\ pc = "sync_recv_tri"
        /\ \/ pc' # pc
           \/ m_tire_data' # m_tire_data
           \/ bodies' # bodies
           \/ \E i \in Tires : Len(outbox'[i]) > Len(outbox[i]))
       => \E k \in 1 .. Len(chan[which]) :
              /\ chan[which][k].tag = step_number
              /\ \A o \in 1 .. (k - 1) : chan[which][o].tag # step_number
              /\ chan' = [chan EXCEPT ![which] = RemoveAt(chan[which], k)]
      ]_vars

\* Step 1: tire 0, whose MaxTri triangles the terrain holds from step 0, has
\* sent its vertex array alone; Synchronize(1) has taken it and waits.
C20_Witness ==
    /\ WaitsForConnectivity
    /\ which = 0
    /\ step_number = 1
    /\ m_tire_data[0].m_num_tri = MaxTri
    /\ m_tire_data[0].m_triangles = [it \in 1 .. MaxTri |-> <<it - 1, it, it + 1>>]
    /\ chan[0] = <<>>
    /\ outbox[0] = <<>>

\* ---------------------------------------------------------------- C21
\* The argument and the internal step sizes of the last Advance, as recorded.
AdvanceCall == Len(trace) > 0 /\ trace[1][1] = "advance"
AdvanceArg == trace[1][2]
AdvanceSizes == [j \in 1 .. Len(trace) - 1 |-> trace[j + 1][2]]

\* C21: for a micro-step h > 0 and a macro step T > 0, Advance(T) takes
\* ceil(T/h) internal steps, each of size at most h, all of size h except
\* possibly the last, and their sizes sum to exactly T; for T <= 0 it takes no
\* internal step.
C21_AdvanceStepCount ==
    AdvanceCall =>
        LET T == AdvanceArg
            h == m_step_size
            hs == AdvanceSizes
        IN  IF T <= 0
            THEN hs = <<>>
            ELSE /\ Len(hs) = CeilDiv(T, h)
                 /\ \A j \in 1 .. Len(hs) : hs[j] <= h
                 /\ \A j \in 1 .. Len(hs) - 1 : hs[j] = h
                 /\ SeqSum(hs) = T

\* ------------------------------------------------------------------- C22
\* The step of Synchronize that unpacks the buffers of tire `which` and updates
\* its proxies.
UpdateStep == pc = "sync_recv_tri" /\ pc' \in {"sync_recv_vert", "sync_send_idx"}

\* Scalars k .. k+2 (counted from 0) of the vertex message held in vert_data.
Scalars3(k) == <<vert_data[k + 1], vert_data[k + 2], vert_data[k + 3]>>

\* The bodies of the first n proxies of tire i.
ProxyBodiesOf(i, n) == {m_tire_data[i].m_proxies[j].body : j \in 1 .. n}

\* C22: on rigid terrain the update of tire i in Synchronize(N) puts proxy iv of
\* the tire at the position given by scalars 3iv .. 3iv+2 of the tire's vertex
\* message, gives it the velocity of scalars 3*vertex_count + 3iv .. +2, the
\* identity orientation and a zero rotational rate, and writes no body other
\* than the proxies of tire i.
C22_NodeProxyStates ==
    [][(UpdateStep /\ m_type = "RIGID" /\ Initialized) =>
          LET i == which
              nv == m_tire_data[i].m_num_vert
          IN  /\ \A iv \in 0 .. nv - 1 :
                    StateOf(bodies'[m_tire_data[i].m_proxies[iv + 1].body]) =
                        [pos |-> Scalars3(3 * iv),
                         rot |-> QUnit,
                         pos_dt |-> Scalars3(3 * nv + 3 * iv),
                         rot_dt |-> QZero]
              /\ \A b \in 1 .. Len(bodies) :
                    b \notin ProxyBodiesOf(i, nv) => bodies'[b] = bodies[b]
              /\ Len(bodies') = Len(bodies)]_vars

\* Synchronize(1) on rigid terrain has updated the proxies of tire 1, a tire of
\* MaxVert vertices, after those of tire 0, and the last proxy of each tire
\* holds the last position of its own vertex message.
C22_Witness ==
    /\ Initialized
    /\ m_type = "RIGID"
    /\ pc = "sync_send_idx"
    /\ step_number = 1
    /\ \A i \in Tires :
          /\ tire[i].nv = MaxVert
          /\ \E c \in ConnSamples :
                bodies[m_tire_data[i].m_proxies[MaxVert].body].pos =
                    [d \in 1 .. 3 |-> VertexPayload(MaxVert, 1, c)[3 * (MaxVert - 1) + d]]

\* ------------------------------------------------------------------- C23
\* The three indices of the triangles held in tdata name vertices of a mesh
\* of nv vertices.
TriInRange(tri, nv) == \A c \in 1 .. 3 : tri[c] \in 0 .. nv - 1

Mean3(a, b, c) == VDiv(VAdd(VAdd(a, b), c), 3)

\* C23: on granular terrain the update of tire i in Synchronize(N) gives face
\* proxy it of the tire, for a triangle that names vertices of the tire, the
\* centroid of the triangle's three vertex positions of the step as position,
\* the mean of the three vertex velocities as linear velocity, the identity
\* orientation and a zero angular velocity, and stores in the contact-shape
\* slots 3*(start_tri[i]+it) .. +2 the three vertex positions minus the
\* centroid; it writes no slot of another tire's triangles and no body other
\* than the proxies of tire i.
C23_FaceProxyStates ==
    [][(UpdateStep /\ m_type = "GRANULAR" /\ Initialized) =>
          LET i == which
              nv == m_tire_data[i].m_num_vert
              nt == m_tire_data[i].m_num_tri
              first == 3 * m_tire_data[i].m_start_tri
          IN  /\ \A it \in 0 .. nt - 1 :
                    LET tri == m_tire_data'[i].m_triangles[it + 1]
                        P(c) == Scalars3(3 * tri[c])
                        V(c) == Scalars3(3 * nv + 3 * tri[c])
                        cen == Mean3(P(1), P(2), P(3))
                    IN  TriInRange(tri, nv) =>
                          /\ StateOf(bodies'[m_tire_data[i].m_proxies[it + 1].body]) =
                                [pos |-> cen,
                                 rot |-> QUnit,
                                 pos_dt |-> Mean3(V(1), V(2), V(3)),
                                 rot_dt |-> QZero]
                          /\ \A c \in 1 .. 3 :
                                triangle_rigid'[first + 3 * it + c] = VSub(P(c), cen)
              /\ Len(triangle_rigid') = Len(triangle_rigid)
              /\ \A j \in 1 .. Len(triangle_rigid) :
                    (j - 1) \notin first .. (first + 3 * nt - 1) =>
                        triangle_rigid'[j] = triangle_rigid[j]
              /\ \A b \in 1 .. Len(bodies) :
                    b \notin ProxyBodiesOf(i, nt) => bodies'[b] = bodies[b]]_vars

\* Synchronize(1) on granular terrain has updated the face proxies of two tires
\* of MaxTri triangles each on MaxVert vertices: the first shape slot of tire 1
\* holds a vertex position of the step minus the centroid, and the slots of
\* tire 0 are no longer the placeholder.
C23_Witness ==
    /\ Initialized
    /\ m_type = "GRANULAR"
    /\ pc = "sync_send_idx"
    /\ step_number = 1
    /\ \A i \in Tires : tire[i].nv = MaxVert /\ tire[i].nt = MaxTri
    /\ \A i \in Tires : \A it \in 1 .. MaxTri :
          TriInRange(m_tire_data[i].m_triangles[it], MaxVert)
    /\ triangle_rigid[1] # PlaceholderTriangle[1]
    /\ triangle_rigid[3 * MaxTri + 1] # PlaceholderTriangle[1]
    /\ VAdd(triangle_rigid[3 * MaxTri + 1], bodies[m_tire_data[1].m_proxies[1].body].pos) =
          m_tire_data[1].m_vertex_states[m_tire_data[1].m_triangles[1][1] + 1].pos

\* ------------------------------------------------------------------- C24
\* The step in which Construct builds the terrain, called directly or by Settle.
ConstructStep == ~m_constructed /\ m_constructed'

\* The bodies of the given kind a construction step has added.
BuiltOfKind(kind) ==
    {b \in (Len(bodies) + 1) .. Len(bodies') : bodies'[b].kind = kind}

FreeAndWelded(b) == ~b.fixed /\ b.welded
FixedUnwelded(b) == b.fixed /\ ~b.welded

\* Construct builds one platform and one container; with fixed proxies it adds
\* one ground anchor, fixed and non-colliding, otherwise none.
BuiltStructure ==
    /\ Cardinality(BuiltOfKind("platform")) = 1
    /\ Cardinality(BuiltOfKind("container")) = 1
    /\ Cardinality(BuiltOfKind("ground")) = IF m_fixed_proxies THEN 1 ELSE 0
    /\ \A g \in BuiltOfKind("ground") : bodies'[g].fixed /\ ~bodies'[g].collide

\* C24 as stated: with fixed proxies Construct leaves platform and container,
\* on both terrain types, free bodies welded to a fixed, non-colliding ground
\* anchor; without fixed proxies both stay fixed and no anchor or weld is made.
C24_BothWeldedWhenProxiesFixed ==
    [][ConstructStep =>
          /\ BuiltStructure
          /\ \A b \in BuiltOfKind("platform") \cup BuiltOfKind("container") :
                IF m_fixed_proxies THEN FreeAndWelded(bodies'[b])
                ELSE FixedUnwelded(bodies'[b])]_vars

\* C24, amended: with fixed proxies Construct leaves the platform a free body
\* welded to a fixed, non-colliding ground anchor, and the container too on
\* rigid terrain; on granular terrain the container stays fixed and unwelded.
\* Without fixed proxies both stay fixed and no anchor or weld is made.
C24_WeldedAsNeeded ==
    [][ConstructStep =>
          /\ BuiltStructure
          /\ \A b \in BuiltOfKind("platform") :
                IF m_fixed_proxies THEN FreeAndWelded(bodies'[b])
                ELSE FixedUnwelded(bodies'[b])
          /\ \A b \in BuiltOfKind("container") :
                IF m_fixed_proxies /\ m_type = "RIGID" THEN FreeAndWelded(bodies'[b])
                ELSE FixedUnwelded(bodies'[b])]_vars

\* Granular terrain built with fixed proxies: the ground anchor exists, the
\* platform is free and welded, the container is fixed.
C24_Witness ==
    /\ m_constructed
    /\ m_type = "GRANULAR"
    /\ m_fixed_proxies
    /\ \E g \in 1 .. Len(bodies) : bodies[g].kind = "ground"
    /\ \E b \in 1 .. Len(bodies) : bodies[b].kind = "platform" /\ FreeAndWelded(bodies[b])
    /\ \E b \in 1 .. Len(bodies) : bodies[b].kind = "container" /\ FixedUnwelded(bodies[b])

\* ------------------------------------------------------------------- C25
\* Contact shape k (from 1) is the platform's box: of all boxes of the terrain
\* only the platform's lies behind the container, its front face at x = -m_hdimX.
IsPlatformBox(pos, hdims) ==
    /\ pos[1] + hdims[1] = -HdimX
    /\ pos[1] < -HdimX
    /\ hdims[2] = HdimY

\* The call of Initialize up to its first receive.
InitializeStep == Idle /\ numInit' = numInit + 1

\* The shapes as Initialize may find them after its call of Construct.
ShapesAtInitialize == {Construct(npl) : npl \in 1 .. MaxPerLayer}

\* C25: in every state after Construct the first contact shape is the
\* platform's box and the first body the platform, and the height adjustment of
\* Initialize resizes exactly this box: its top face ends at the initial
\* terrain height, its bottom face and its x and y extent stay as they were,
\* and no other shape is modified.
C25_PlatformBoxAdjusted ==
    [][/\ m_constructed' =>
             /\ bodies'[1].kind = "platform"
             /\ IsPlatformBox(ObA_rigid'[1], box_like_rigid'[1])
             /\ \A k \in 2 .. Len(box_like_rigid') :
                   ~IsPlatformBox(ObA_rigid'[k], box_like_rigid'[k])
       /\ InitializeStep =>
             \E c \in ShapesAtInitialize :
             LET pos0 == c.ObA_rigid
                 dim0 == c.box_like_rigid
             IN  /\ ObA_rigid'[1][3] + box_like_rigid'[1][3] = m_init_height
                 /\ ObA_rigid'[1][3] - box_like_rigid'[1][3] = pos0[1][3] - dim0[1][3]
                 /\ \A d \in 1 .. 2 :
                       /\ ObA_rigid'[1][d] = pos0[1][d]
                       /\ box_like_rigid'[1][d] = dim0[1][d]
                 /\ Len(ObA_rigid') = Len(pos0)
                 /\ Len(box_like_rigid') = Len(dim0)
                 /\ \A k \in 2 .. Len(pos0) : ObA_rigid'[k] = pos0[k]
                 /\ \A k \in 2 .. Len(dim0) : box_like_rigid'[k] = dim0[k]
                 /\ triangle_rigid' = triangle_rigid]_vars

\* Initialize has run on a settled granular terrain with a platform of the
\* given length: the platform box ends at the height of the material, which is
\* not the height the box was built with.
C25_Witness ==
    /\ Initialized
    /\ m_type = "GRANULAR"
    /\ m_hlenX > 0
    /\ m_init_height > 0
    /\ ObA_rigid[1][3] + box_like_rigid[1][3] = m_init_height
    /\ box_like_rigid[1][3] # HdimZ + Hthick
    /\ box_like_rigid[1][1] = m_hlenX + Hthick

\* ------------------------------------------------------------------- C26
\* A step that leaves a new checkpoint file: a call of WriteCheckpoint.
WritesFile == checkpoint' # checkpoint

IsParticle(b) == b.kind = "particle"

RestoreStep ==
    /\ SettleCall
    /\ m_constructed
    /\ m_use_checkpoint
    /\ checkpoint.exists
    /\ pc' = "idle"

\* C27: restoring from a checkpoint in Settle never creates or removes a body:
\* the body count and every identifier are unchanged, a body whose state is
\* written takes the state of a record of the file whose identifier is the
\* body's, and platform, container and ground anchor are left as they were.
C27_RestoreByIdentifier ==
    [][RestoreStep =>
          /\ Len(bodies') = Len(bodies)
          /\ \A b \in 1 .. Len(bodies) :
                /\ bodies'[b].id = bodies[b].id
                /\ bodies'[b].kind = bodies[b].kind
                /\ bodies[b].kind \in {"platform", "container", "ground"} =>
                      bodies'[b] = bodies[b]
                /\ StateOf(bodies'[b]) # StateOf(bodies[b]) =>
                      \E j \in 1 .. Len(checkpoint.recs) :
                            /\ checkpoint.recs[j][1] = bodies[b].id
                            /\ StateOf(bodies'[b]) = StateOfRecord(checkpoint.recs[j])]_vars

\* ------------------------------------------------------------------- C28
\* Synchronize(N) is running.
Synchronizing(N) == InSynchronize /\ step_number = N

\* Tire i has taken its index and force messages of step N.
HasForces(i, N) == tire[i].step > N \/ (tire[i].step = N /\ tire[i].sent = "done")

\* Every step through MaxStep is done on both sides.
AllDone == pc = "idle" /\ calls = MaxStep + 2 /\ \A i \in Tires : tire[i].sent = "done"

\* C28: over a reliable channel and under fair scheduling, with tires that send
\* their handshake and then per step their two messages before they wait for
\* the forces, every Synchronize(N) completes, every tire then receives its
\* index and force messages of step N, and terrain and tires never wait on each
\* other for ever: the run goes on until the last step is done on both sides.
C28_ExchangeProgress ==
    /\ \A N \in 0 .. MaxStep :
          /\ Synchronizing(N) ~> (pc = "idle" /\ step_number = N)
          /\ Synchronizing(N) ~> (\A i \in Tires : HasForces(i, N))
    /\ InInitialize ~> Initialized
    /\ <>AllDone

\* Synchronize(MaxStep) has returned and every tire has taken its answers of
\* that step.
C28_Witness ==
    /\ AllDone
    /\ step_number = MaxStep
    /\ \A i \in Tires : outbox[i] = <<>> /\ chan[i] = <<>>

\* ------------------------------------------------------------------- C29
\* The index messages queued for tire i.
IndexMessages(i) == {k \in 1 .. Len(outbox[i]) : outbox[i][k].type = "int"}

\* C29: every index in an index message sent to tire i is a tire-local vertex
\* index, a value in 0 .. vertex_count[i]-1, and no index appears twice in one
\* message, on rigid terrain and, for every connectivity the terrain has
\* accepted, on granular terrain.
C29_LocalIndices ==
    Initialized =>
        \A i \in Tires : \A k \in IndexMessages(i) :
            LET idx == outbox[i][k].data
            IN  /\ \A j \in 1 .. Len(idx) : idx[j] \in 0 .. m_tire_data[i].m_num_vert - 1
                /\ \A j1 \in 1 .. Len(idx) : \A j2 \in 1 .. Len(idx) :
                      idx[j1] = idx[j2] => j1 = j2

\* ------------------------------------------------------------------- C30
\* C30: in every state in which a fixed proxy body exists the platform is not
\* a fixed body, whatever the order of the calls of SetProxyProperties,
\* Construct, Settle and Initialize.
C30_PlatformFreeForFixedProxies ==
    (\E p \in ProxyBodies : bodies[p].fixed) =>
        \A b \in 1 .. Len(bodies) : bodies[b].kind = "platform" => ~bodies[b].fixed

====
